---- MODULE Spec2Model ----
(***************************************************************************)
(* State-machine model of the batch tweet processor                        *)
(* (src/batch_process_tweets.py, class TweetProcessor) and of the provider *)
(* clients it drives (src/api_client.py).                                  *)
(*                                                                         *)
(* The program is one sequential thread.  pc is its position; every action *)
(* is the code between two labelled positions.  The suspension points      *)
(* (provider call, backoff sleep, buffer sleep, batch rest) are the places *)
(* where a KeyboardInterrupt can be delivered.                             *)
(*                                                                         *)
(* Text is a sequence of one-character strings: "" is << >>.               *)
(* None | str values are records [none, text].                             *)
(***************************************************************************)
EXTENDS Integers, Sequences, FiniteSets, TLC

\* ------------------------------------------------------------------ bounds
MaxRecords == 2        \* length of the dataset
MaxRuns == 2           \* program invocations in one behaviour
MaxInterrupts == 1     \* KeyboardInterrupts delivered in one behaviour
MaxFsFaults == 1       \* filesystem errors raised in one behaviour
MaxRetries == 4        \* largest max_retries argument of _call_api_for_task
MaxCalls == 3          \* call attempts on the clients in one behaviour of SpecRate
MaxTime == 14          \* the clock of SpecRate stops here
Epoch == 4             \* time.time() at program start: far from a new client's stamp 0

\* ------------------------------------------------------- program constants
default_max_retries == 3   \* default of _call_api_for_task's max_retries
backoff_unit == 5      \* wait_time = 5 * (attempt + 1)
max_length == 100      \* default of _sanitize_filename's max_length
openrouter_interval == 4   \* OpenRouterClient.call_api: _enforce_rate_limit(4.0)
gemini_interval == 2       \* GeminiClient.call_api: _enforce_rate_limit(2.0)

\* -------------------------------------------------------------- text values
None == [none |-> TRUE, text |-> << >>]
Str(t) == [none |-> FALSE, text |-> t]

\* Python truthiness of an Optional[str]: None and "" are falsy.
Truthy(r) == ~r.none /\ r.text # << >>

IsSpace(c) == c = " "

RECURSIVE lstrip(_)
lstrip(t) == IF t # << >> /\ IsSpace(Head(t)) THEN lstrip(Tail(t)) ELSE t

RECURSIVE rstrip(_)
rstrip(t) ==
    IF t # << >> /\ IsSpace(t[Len(t)]) THEN rstrip(SubSeq(t, 1, Len(t) - 1)) ELSE t

\* str.strip()
strip(t) == rstrip(lstrip(t))

\* re.sub(r'\s+', ' ', t): every run of whitespace becomes one space.
RECURSIVE collapse_spaces(_)
collapse_spaces(t) ==
    IF t = << >> THEN << >>
    ELSE IF IsSpace(Head(t))
         THEN << " " >> \o collapse_spaces(lstrip(t))
         ELSE << Head(t) >> \o collapse_spaces(Tail(t))

IllegalChars == {"<", ">", ":", "\"", "/", "\\", "|", "?", "*"}

\* TweetProcessor._sanitize_filename
sanitize_filename(filename) ==
    LET replaced == [k \in 1..Len(filename) |->
                        IF filename[k] \in IllegalChars THEN "_" ELSE filename[k]]
        cleaned  == strip(collapse_spaces(replaced))
        capped   == IF Len(cleaned) > max_length
                    THEN rstrip(SubSeq(cleaned, 1, max_length))
                    ELSE cleaned
    IN IF capped = << >> THEN <<"u","n","t","i","t","l","e","d">> ELSE capped

\* "^" stands for the backquote character of a markdown fence.
Fence == <<"^", "^", "^">>
FenceSvg == Fence \o <<"s", "v", "g">>

StartsWith(t, p) == Len(t) >= Len(p) /\ SubSeq(t, 1, Len(p)) = p
EndsWith(t, p) == Len(t) >= Len(p) /\ SubSeq(t, Len(t) - Len(p) + 1, Len(t)) = p

\* TweetProcessor._clean_svg_text, on texts without @import lines, ampersands
\* and font names (the substitutions of lines 371-393 leave such texts alone).
clean_svg_text(svg_content) ==
    LET t0 == strip(svg_content)
        t1 == IF StartsWith(t0, FenceSvg) THEN SubSeq(t0, 8, Len(t0)) ELSE t0
        t2 == IF EndsWith(t1, Fence) THEN SubSeq(t1, 1, Len(t1) - 3) ELSE t1
    IN strip(t2)

\* str(counter) for the folder suffixes the model reaches.
DecimalDigit(n) == CASE n = 0 -> "0" [] n = 1 -> "1" [] n = 2 -> "2" [] n = 3 -> "3"
                     [] n = 4 -> "4" [] n = 5 -> "5" [] n = 6 -> "6" [] n = 7 -> "7"
                     [] n = 8 -> "8" [] OTHER -> "9"

RECURSIVE int_to_text(_)
int_to_text(n) ==
    IF n < 10 THEN << DecimalDigit(n) >>
    ELSE int_to_text(n \div 10) \o << DecimalDigit(n % 10) >>

\* ------------------------------------------------------------ configuration
TaskNames == {"title", "body", "svg"}

\* config["api_providers"]: pX is disabled, pN has no key, others are usable.
api_providers ==
    [p \in {"pA", "pB", "pC", "pX", "pN"} |->
        [enabled |-> p # "pX", key |-> IF p = "pN" THEN "" ELSE "k"]]

\* A faulty variant of get_api_provider_config: every provider is taken to
\* be enabled and to have a key.
get_api_provider_config_usable(provider) == [enabled |-> TRUE, key |-> "k"]

\* ConfigManager.get_api_provider_config: an unknown provider gets the
\* dataclass defaults (enabled=True, key="").
get_api_provider_config(provider) ==
    IF provider \in DOMAIN api_providers THEN api_providers[provider]
    ELSE [enabled |-> TRUE, key |-> ""]

\* A candidate is <<provider, model>>; an unset slot is the empty dict << >>.
CA == <<"pA", "m1">>
CB == <<"pB", "m1">>
CC == <<"pC", "m1">>
CA2 == <<"pA", "m2">>
CX == <<"pX", "m1">>
CN == <<"pN", "m1">>
CU == <<"pU", "m1">>     \* pU is not in api_providers
NoCand == << >>

\* TaskConfig(primary, fallback, fallback2, fallback3)
Only(c) == <<c, NoCand, NoCand, NoCand>>
Undefined == <<NoCand, NoCand, NoCand, NoCand>>

\* The "tasks" sections the model is run with: three candidates of distinct
\* providers; a disabled provider, an unset slot and one provider under two
\* models; a task that is not defined.
TaskSettings ==
    { [title |-> <<CA, CB, CC, NoCand>>, body |-> Only(CB), svg |-> Only(CA)],
      [title |-> <<CX, CB, NoCand, CA2>>, body |-> Only(CA), svg |-> Only(CA)],
      [title |-> Only(CA), body |-> Only(CA), svg |-> Undefined] }

\* The record kinds of the dataset: a dict with text, a dict whose full_text
\* is empty or missing, and a list element that is not a dict.
RecordKinds == {"text", "empty", "bad"}

Files == {"generated.svg", "title.txt", "body.txt"}

\* What a provider can send back for a task (OpenRouterClient.call_api returns
\* message.content as it is): nothing, "", blanks, or a text.
Texts(task) ==
    CASE task = "title" -> { <<"/">>, <<"b">> }
      [] task = "body"  -> { <<"x">> }
      [] OTHER          -> { <<"s">>, FenceSvg }

Replies(task) == {None, Str(<< >>), Str(<<" ">>)} \cup {Str(t) : t \in Texts(task)}

\* The client classes of api_client.py.
ClientClasses == {"OpenRouterClient", "GeminiClient"}

ZeroProgress ==
    [last_processed_index |-> -1, total_processed |-> 0,
     total_success |-> 0, total_failed |-> 0]


\* -------------------------------------------------------------------- state
VARIABLES
    data,            \* the dataset read from json_file: a sequence of RecordKinds
    task_config,     \* config["tasks"]: task name -> TaskConfig
    batch_config,    \* BatchConfig
    max_retries,     \* the max_retries argument of _call_api_for_task
    progress_file,   \* processing_progress.json: [state, content]
    output_dir,      \* folder name -> (file name -> <<run, index>> that wrote it)
    clients,         \* self.clients: client key -> the cached client instance
    constructed,     \* history: clients this process has constructed
    api_stats,       \* self.api_stats, read with .get(key, 0)
    pc,              \* position of the thread
    start_index, end_index, success_count, failed_count,   \* process_dataset
    batch_start, batch_count, batch_success, batch_failed, \* the batch loop
    i,               \* the enumerate index of the record loop in progress
    title, body, ret, why,                                 \* process_single_tweet
    task_name, attempt, cand, response,                    \* _call_api_for_task
    run_no,          \* history: which invocation of the program this is
    interrupts,      \* history: KeyboardInterrupts delivered so far
    fs_faults,       \* history: filesystem errors raised so far
    events,          \* history: what this run did, in order
    calls,           \* history: what the current _call_api_for_task did, in order
    stats0,          \* history: api_stats when the current _call_api_for_task began
    returned,        \* history: _call_api_for_task invocations of this process that returned
    called,          \* history: records for which this run issued a provider call
    config_faults,   \* what is wrong with the configuration main() loads
    exit_status,     \* << >> while the program runs, then <<main's return value>>
    now,             \* time.time(), in seconds
    last_call_time,  \* client -> its _last_call_time
    issued,          \* history: the call attempts made on the clients, in order
    manager,         \* an APIClientManager: its clients (in dict order) and primary
    cwf              \* the call_with_fallback in progress on the manager

cfgVars == <<data, task_config, batch_config, max_retries>>
diskVars == <<progress_file, output_dir>>
procVars == <<clients, constructed, api_stats>>
runVars == <<start_index, end_index, success_count, failed_count>>
batchVars == <<batch_start, batch_count, batch_success, batch_failed>>
recVars == <<title, body, ret, why>>
cftVars == <<task_name, attempt, cand, response>>
cftHist == <<calls, stats0, returned>>
faultVars == <<interrupts, fs_faults>>
mainVars == <<config_faults, exit_status>>
clockVars == <<now, last_call_time, issued>>
managerVars == <<manager, cwf>>
vars == <<cfgVars, diskVars, procVars, pc, runVars, batchVars, i, recVars,
          cftVars, run_no, faultVars, events, cftHist, called, mainVars, clockVars,
          managerVars>>

StatKeys == DOMAIN api_providers \cup {"failed"}

Ev(type, idx, note, s, f) == [type |-> type, idx |-> idx, note |-> note, s |-> s, f |-> f]

\* BatchConfig; the sleep times are in tenths of a second, either both zero
\* or the dataclass defaults.  Non-batched mode reads none of the other fields.
BatchConfigs ==
    { [enable_batching |-> TRUE,
       batch_size |-> size,
       progress_save_interval |-> interval,
       api_call_buffer_time |-> sleeps[1],
       batch_rest_time |-> sleeps[2]] :
         size \in 1..MaxRecords, interval \in 1..MaxRecords,
         sleeps \in {<<0, 0>>, <<1, 5>>} }
    \cup
    { [enable_batching |-> FALSE,
       batch_size |-> MaxRecords,
       progress_save_interval |-> MaxRecords,
       api_call_buffer_time |-> 1,
       batch_rest_time |-> 5] }

SimpleTasks == [title |-> Only(CA), body |-> Only(CA), svg |-> Only(CA)]

\* The program builds no APIClientManager: batch_process_tweets.py never names it.
NoManager == [clients |-> << >>, primary |-> "openrouter"]

\* No call_with_fallback is in progress.
Idle == [pc |-> "idle", k |-> 0, calls |-> << >>, result |-> << >>]

\* TweetProcessor.__init__, for a first invocation on a clean working directory.
Constructed ==
    /\ max_retries = default_max_retries
    /\ progress_file = [state |-> "absent", content |-> ZeroProgress]
    /\ output_dir = << >>
    /\ clients = << >> /\ constructed = 0
    /\ api_stats = [k \in StatKeys |-> 0]
    /\ pc = "start"
    /\ start_index = 0 /\ end_index = 0 /\ success_count = 0 /\ failed_count = 0
    /\ batch_start = 0 /\ batch_count = 0 /\ batch_success = 0 /\ batch_failed = 0
    /\ i = 0
    /\ title = << >> /\ body = << >> /\ ret = FALSE /\ why = ""
    /\ task_name = "" /\ attempt = 0 /\ cand = 0 /\ response = None
    /\ run_no = 1 /\ interrupts = 0 /\ fs_faults = 0
    /\ events = << >> /\ calls = << >> /\ stats0 = api_stats /\ called = {}
    /\ returned = 0
    /\ config_faults = {} /\ exit_status = << >>
    /\ now = Epoch /\ last_call_time = [c \in ClientClasses |-> 0] /\ issued = << >>
    /\ manager = NoManager /\ cwf = Idle

\* ------------------------------------------------------------ ProviderRegistry
\* client_key = f"{provider}_{model}"
client_key(provider, model) == provider \o "_" \o model

\* api_client.create_client: constructs the client of a provider.
create_client(provider, model) == TRUE

\* A faulty variant of cached: the cache is never consulted.
cached_never(key) == FALSE

\* if client_key in self.clients (line 106)
cached(key) == key \in DOMAIN clients

\* TweetProcessor._get_client: TRUE when it returns a client, FALSE for None.
get_client(provider, model) ==
    IF cached(client_key(provider, model)) THEN TRUE
    ELSE LET provider_config == get_api_provider_config(provider)
         IN IF ~provider_config.enabled THEN FALSE
            ELSE IF provider_config.key = "" THEN FALSE
            ELSE create_client(provider, model)

\* The instance create_client makes: the serial tells the instances apart.
new_client(provider, model) ==
    [provider |-> provider, model |-> model, serial |-> constructed + 1]

\* Whether _get_client(provider, model) constructs a client (lines 119-121).
constructs(provider, model) ==
    ~cached(client_key(provider, model)) /\ get_client(provider, model)

\* self.clients after _get_client(provider, model)
clients_after_get(provider, model) ==
    IF constructs(provider, model)
    THEN (client_key(provider, model) :> new_client(provider, model)) @@ clients
    ELSE clients

\* --------------------------------------------------------------- FailoverCaller
\* ConfigManager.get_task_config: an undefined task gets TaskConfig() with
\* four empty dicts.
get_task_config(task) ==
    IF task \in DOMAIN task_config THEN task_config[task]
    ELSE <<NoCand, NoCand, NoCand, NoCand>>

\* bool(task_config): TaskConfig is a dataclass without __bool__ or __len__.
task_config_truthy(tc) == TRUE

\* A faulty variant of api_configs: the fallback is put before the primary.
api_configs_fallback_first(task) ==
    LET tc == get_task_config(task)
    IN SelectSeq(<<tc[2], tc[1], tc[3], tc[4]>>, LAMBDA c : c # NoCand)

\* api_configs of _call_api_for_task: the set slots, in priority order.
api_configs(task) == SelectSeq(get_task_config(task), LAMBDA c : c # NoCand)

\* A faulty variant of continuation: after the title the caller continues
\* where it would after the body.
continuation_skip_body(task) == IF task = "svg" THEN "after_svg" ELSE "after_body"

\* The position the caller of _call_api_for_task continues at.
continuation(task) ==
    CASE task = "title" -> "after_title"
      [] task = "body"  -> "after_body"
      [] OTHER          -> "after_svg"

actual_index == start_index + (IF batch_config.enable_batching THEN batch_start ELSE 0) + i

\* An entry of calls: a provider call ("call"), a candidate without client
\* ("skip") or a backoff ("sleep"), with the attempt it belongs to.
Call(kind, api, reply, wait) ==
    [kind |-> kind, attempt |-> attempt, api |-> api, ok |-> Truthy(reply),
     reply |-> IF Truthy(reply) THEN reply ELSE None, wait |-> wait]

\* A faulty variant of response_ok: the success test never passes, so the
\* loops go on after a provider answered.
response_never_ok(r) == FALSE

\* if response: (line 149)
response_ok(r) == Truthy(r)

\* Entry of _call_api_for_task(task, ...) up to the head of the retry loop.
enter_call_api_for_task(task) ==
    /\ stats0' = api_stats
    /\ calls' = << >>
    /\ IF ~task_config_truthy(get_task_config(task))
       THEN /\ pc' = continuation(task)
            /\ returned' = returned + 1
            /\ task_name' = task /\ attempt' = 0 /\ cand' = 0 /\ response' = None
       ELSE /\ pc' = "cft_loop"
            /\ UNCHANGED returned
            /\ task_name' = task /\ attempt' = 0 /\ cand' = 1 /\ response' = None

\* A faulty variant of stats_success: the primary candidate's provider is
\* credited whichever candidate answered.
stats_success_primary(provider) ==
    [api_stats EXCEPT ![api_configs(task_name)[1][1]] = @ + 1]

\* api_stats after a success of provider
stats_success(provider) == [api_stats EXCEPT ![provider] = @ + 1]

\* A faulty variant of stats_failed: the failure is not counted.
stats_failed_uncounted == api_stats

\* api_stats after all attempts failed
stats_failed == [api_stats EXCEPT !["failed"] = @ + 1]

\* A faulty variant of wait_time: the backoff does not grow with the attempt.
wait_time_flat(a) == backoff_unit

\* A faulty variant of wait_time: the backoff doubles with every attempt.
wait_time_doubling(a) == backoff_unit * 2^a

\* wait_time of the backoff after a failed attempt
wait_time(a) == backoff_unit * (a + 1)

\* One pass of the inner loop body: the next candidate of this attempt.
call_api_for_task_try ==
    /\ pc = "cft_loop"
    /\ cand <= Len(api_configs(task_name))
    /\ LET api_info == api_configs(task_name)[cand]
           provider == api_info[1]
           model    == api_info[2]
       IN /\ clients' = clients_after_get(provider, model)
          /\ constructed' = IF constructs(provider, model)
                            THEN constructed + 1 ELSE constructed
          /\ IF ~get_client(provider, model)
             THEN \* client is None: logged as a failed call
                  /\ calls' = Append(calls, Call("skip", api_info, None, 0))
                  /\ cand' = cand + 1
                  /\ UNCHANGED <<pc, task_name, attempt, response, api_stats,
                                 called, interrupts, events, returned>>
             ELSE \/ \E r \in Replies(task_name) :
                        /\ called' = called \cup {actual_index}
                        /\ calls' = Append(calls, Call("call", api_info, r, 0))
                        /\ UNCHANGED <<interrupts, events>>
                        /\ IF response_ok(r)
                           THEN /\ api_stats' = stats_success(provider)
                                /\ response' = r
                                /\ returned' = returned + 1
                                /\ pc' = continuation(task_name)
                                /\ attempt' = 0 /\ cand' = 0
                                /\ UNCHANGED task_name
                           ELSE /\ cand' = cand + 1
                                /\ UNCHANGED <<pc, task_name, attempt, response,
                                               api_stats, returned>>
                  \/ \* KeyboardInterrupt during the rate-limit wait or the request
                     /\ interrupts < MaxInterrupts
                     /\ interrupts' = interrupts + 1
                     /\ called' = called \cup {actual_index}
                     /\ events' = Append(events, Ev("interrupt", actual_index, "record", 0, 0))
                     /\ pc' = "KeyboardInterrupt"
                     /\ attempt' = 0 /\ cand' = 0
                     /\ UNCHANGED <<task_name, response, api_stats, calls, returned>>
    /\ UNCHANGED <<cfgVars, managerVars, mainVars, clockVars, diskVars, runVars, batchVars, i, recVars, run_no,
                   fs_faults, stats0>>

\* Every candidate of this attempt failed and attempts remain: back off.
call_api_for_task_backoff ==
    /\ pc = "cft_loop"
    /\ cand > Len(api_configs(task_name))
    /\ attempt < max_retries - 1
    /\ \/ /\ calls' = Append(calls, Call("sleep", NoCand, None, wait_time(attempt)))
          /\ attempt' = attempt + 1
          /\ cand' = 1
          /\ UNCHANGED <<pc, task_name, interrupts, events>>
       \/ \* KeyboardInterrupt during time.sleep(wait_time)
          /\ interrupts < MaxInterrupts
          /\ interrupts' = interrupts + 1
          /\ events' = Append(events, Ev("interrupt", actual_index, "record", 0, 0))
          /\ pc' = "KeyboardInterrupt"
          /\ attempt' = 0 /\ cand' = 0
          /\ UNCHANGED <<task_name, calls>>
    /\ UNCHANGED <<cfgVars, managerVars, mainVars, clockVars, diskVars, procVars, runVars, batchVars, i, recVars,
                   response, run_no, fs_faults, stats0, returned, called>>

\* Every candidate failed on the last attempt.
call_api_for_task_failed ==
    /\ pc = "cft_loop"
    /\ cand > Len(api_configs(task_name))
    /\ attempt >= max_retries - 1
    /\ api_stats' = stats_failed
    /\ response' = None
    /\ returned' = returned + 1
    /\ pc' = continuation(task_name)
    /\ attempt' = 0 /\ cand' = 0
    /\ UNCHANGED <<cfgVars, managerVars, mainVars, clockVars, diskVars, clients, constructed, runVars,
                   batchVars, i, recVars,
                   task_name, run_no, faultVars, events, calls, stats0, called>>


\* -------------------------------------------------------------- RecordProcessor
\* A faulty variant of is_already_processed: a complete folder counts only
\* when it was written for the record's own index.
is_already_processed_own_index(folder_path) ==
    /\ folder_path \in DOMAIN output_dir
    /\ \A file \in Files :
          /\ file \in DOMAIN output_dir[folder_path]
          /\ output_dir[folder_path][file][2] = actual_index

\* A faulty variant of is_already_processed: no folder is ever recognised.
is_already_processed_never(folder_path) == FALSE

\* TweetProcessor._is_already_processed
is_already_processed(folder_path) ==
    /\ folder_path \in DOMAIN output_dir
    /\ \A file \in Files : file \in DOMAIN output_dir[folder_path]

\* Path.exists() of a folder of the output directory
folder_exists(folder_path) == folder_path \in DOMAIN output_dir

RECURSIVE unique_from(_, _)
unique_from(folder_name, counter) ==
    LET folder_path == folder_name \o <<"_">> \o int_to_text(counter)
    IN IF folder_exists(folder_path) THEN unique_from(folder_name, counter + 1)
       ELSE folder_path

\* A faulty variant of get_unique_folder_name: an existing folder is reused.
get_unique_folder_name_reuse(base_name) == sanitize_filename(base_name)

\* TweetProcessor._get_unique_folder_name
get_unique_folder_name(base_name) ==
    LET folder_name == sanitize_filename(base_name)
    IN IF folder_exists(folder_name) THEN unique_from(folder_name, 1) ELSE folder_name

\* The order in which _save_files writes the artifacts.
FileOrder == <<"generated.svg", "title.txt", "body.txt">>

\* output_dir after _save_files made folder_path and wrote its first n files.
folder_written(folder_path, n) ==
    LET old == IF folder_exists(folder_path) THEN output_dir[folder_path] ELSE << >>
        new == [file \in {FileOrder[k] : k \in 1..n} |-> <<run_no, actual_index>>]
    IN (folder_path :> (new @@ old)) @@ output_dir

\* A faulty variant of return_from_process: a failed record is reported as
\* a success.
return_from_process_true(value, reason) ==
    /\ pc' = "pst_return"
    /\ ret' = TRUE
    /\ why' = reason
    /\ title' = << >> /\ body' = << >>
    /\ calls' = << >> /\ stats0' = api_stats /\ UNCHANGED returned
    /\ task_name' = "" /\ attempt' = 0 /\ cand' = 0 /\ response' = None
    /\ events' = Append(events, Ev("return", actual_index, "", 0, 0))

\* Leaving process_single_tweet with a return value; its locals die.
return_from_process(value, reason) ==
    /\ pc' = "pst_return"
    /\ ret' = value
    /\ why' = reason
    /\ title' = << >> /\ body' = << >>
    /\ calls' = << >> /\ stats0' = api_stats /\ UNCHANGED returned
    /\ task_name' = "" /\ attempt' = 0 /\ cand' = 0 /\ response' = None
    /\ events' = Append(events, Ev("return", actual_index, "", 0, 0))

\* process_single_tweet up to the title request.
process_single_tweet_begin ==
    /\ pc = "pst_begin"
    /\ CASE data[actual_index + 1] = "bad" ->
              \* tweet_data.get raises AttributeError
              /\ pc' = "Exception"
              /\ events' = Append(events, Ev("exception", actual_index, "", 0, 0))
              /\ UNCHANGED <<recVars, cftVars, cftHist>>
         [] data[actual_index + 1] = "empty" ->
              return_from_process(FALSE, "no_text")
         [] OTHER ->
              /\ enter_call_api_for_task("title")
              /\ UNCHANGED <<recVars, events>>
    /\ UNCHANGED <<cfgVars, managerVars, mainVars, clockVars, diskVars, procVars, runVars, batchVars, i, run_no,
                   faultVars, called>>

\* _generate_title on titles of at most 50 characters without a title marker:
\* the stripped response.
generate_title(r) == IF ~Truthy(r) THEN None ELSE Str(strip(r.text))

\* process_single_tweet from the title's return to the body request.
process_single_tweet_title ==
    /\ pc = "after_title"
    /\ LET t == generate_title(response)
       IN IF ~Truthy(t)
          THEN return_from_process(FALSE, "title_failed")
          ELSE IF is_already_processed(sanitize_filename(t.text))
          THEN return_from_process(TRUE, "already_processed")
          ELSE /\ enter_call_api_for_task("body")
               /\ title' = t.text
               /\ UNCHANGED <<body, ret, why, events>>
    /\ UNCHANGED <<cfgVars, managerVars, mainVars, clockVars, diskVars, procVars, runVars, batchVars, i, run_no,
                   faultVars, called>>

\* _generate_body: the stripped response, or None.
generate_body(r) == IF Truthy(r) THEN Str(strip(r.text)) ELSE None

\* process_single_tweet from the body's return to the image request.
process_single_tweet_body ==
    /\ pc = "after_body"
    /\ LET b == generate_body(response)
       IN IF ~Truthy(b)
          THEN return_from_process(FALSE, "body_failed")
          ELSE /\ enter_call_api_for_task("svg")
               /\ body' = b.text
               /\ UNCHANGED <<title, ret, why, events>>
    /\ UNCHANGED <<cfgVars, managerVars, mainVars, clockVars, diskVars, procVars, runVars, batchVars, i, run_no,
                   faultVars, called>>

\* _generate_svg: the cleaned response, or None.
generate_svg(r) == IF ~Truthy(r) THEN None ELSE Str(clean_svg_text(r.text))

\* process_single_tweet from the image's return to its end: the folder name
\* and _save_files.
process_single_tweet_svg ==
    /\ pc = "after_svg"
    /\ LET svg_content == generate_svg(response)
           final_folder == get_unique_folder_name(title)
           leave(value, reason) ==
               /\ pc' = "pst_return"
               /\ ret' = value
               /\ why' = reason
               /\ title' = << >> /\ body' = << >>
               /\ calls' = << >> /\ stats0' = api_stats /\ UNCHANGED returned
               /\ task_name' = "" /\ attempt' = 0 /\ cand' = 0 /\ response' = None
               /\ events' = events \o << Ev("write", actual_index, "", 0, 0),
                                         Ev("return", actual_index, "", 0, 0) >>
       IN IF ~Truthy(svg_content)
          THEN /\ return_from_process(FALSE, "svg_failed")
               /\ UNCHANGED <<output_dir, fs_faults>>
          ELSE \/ /\ output_dir' = folder_written(final_folder, 3)
                  /\ leave(TRUE, "saved")
                  /\ UNCHANGED fs_faults
               \/ \* mkdir or a write raises: caught, logged, False
                  /\ fs_faults < MaxFsFaults
                  /\ fs_faults' = fs_faults + 1
                  /\ \E n \in -1..2 :
                        output_dir' = IF n < 0 THEN output_dir
                                      ELSE folder_written(final_folder, n)
                  /\ leave(FALSE, "save_failed")
    /\ UNCHANGED <<cfgVars, managerVars, mainVars, clockVars, progress_file, procVars, runVars, batchVars, i, run_no,
                   interrupts, called>>


\* -------------------------------------------------------------- ProgressTracker
\* A faulty variant of load_progress: whatever the file holds is returned.
load_progress_raw == progress_file.content

\* TweetProcessor._load_progress: the zero state when the file is absent or
\* cannot be parsed.
load_progress ==
    IF progress_file.state = "ok" THEN progress_file.content ELSE ZeroProgress

\* A faulty variant of saved_progress: the failures are not written.
saved_progress_without_failed(last_index, success, failed) ==
    [state |-> "ok",
     content |-> [last_processed_index |-> last_index,
                  total_processed |-> last_index + 1,
                  total_success |-> success,
                  total_failed |-> 0]]

\* The file TweetProcessor._save_progress writes.
saved_progress(last_index, success, failed) ==
    [state |-> "ok",
     content |-> [last_processed_index |-> last_index,
                  total_processed |-> last_index + 1,
                  total_success |-> success,
                  total_failed |-> failed]]

\* progress.get(key, default)
dict_get(progress, key, default) ==
    IF key \in DOMAIN progress THEN progress[key] ELSE default

\* A faulty variant of get_auto_start_index: the run resumes at the
\* checkpointed record itself, not after it.
get_auto_start_index_same ==
    LET last_index == load_progress.last_processed_index
    IN IF last_index >= Len(data) - 1 THEN Len(data)
       ELSE IF last_index < 0 THEN 0 ELSE last_index

\* A faulty variant of get_auto_start_index: the index after the checkpoint
\* is returned without the clamp to the length of the dataset.
get_auto_start_index_unclamped == load_progress.last_processed_index + 1

\* TweetProcessor.get_auto_start_index
get_auto_start_index ==
    LET last_index == dict_get(load_progress, "last_processed_index", -1)
        total_count == Len(data)
    IN IF last_index >= total_count - 1 THEN total_count ELSE last_index + 1

\* ------------------------------------------------------------------ BatchRunner
Min(a, b) == IF a < b THEN a ELSE b

\* An optional integer argument: << >> is None, <<k>> is k.
StartArgs == {<< >>} \cup {<<k>> : k \in 0..MaxRecords}
CountArgs == {<< >>} \cup {<<k>> : k \in 0..MaxRecords}

\* start_index of process_dataset
resolve_start(start_arg, auto_continue) ==
    IF start_arg = << >> /\ auto_continue THEN get_auto_start_index
    ELSE IF start_arg = << >> THEN 0
    ELSE start_arg[1]

\* end_index of process_dataset; max_count counts when it is truthy
resolve_end(start, max_count) ==
    IF max_count # << >> /\ max_count[1] # 0
    THEN Min(start + max_count[1], Len(data))
    ELSE Len(data)

\* A faulty variant of process_len: the slice runs to the end of the dataset.
process_len_to_end == Len(data) - start_index

\* len(process_data)
process_len == end_index - start_index

\* total_batches
total_batches ==
    (process_len + batch_config.batch_size - 1) \div batch_config.batch_size

\* len(batch_data) of the batch that starts at batch_start
batch_len == Min(batch_start + batch_config.batch_size, process_len) - batch_start

\* A faulty variant of saves_after_batch: the final batch is not special.
saves_after_batch_interval_only(c) == c % batch_config.progress_save_interval = 0

\* Whether process_dataset saves the progress after the batch numbered c
saves_after_batch(c) ==
    c % batch_config.progress_save_interval = 0 \/ c = total_batches

\* A faulty variant of batch_last_index: the index after the batch.
batch_last_index_next == start_index + batch_start + batch_len

\* The index process_dataset saves after a batch
batch_last_index == start_index + batch_start + batch_len - 1

\* The index the non-batched KeyboardInterrupt handler saves
interrupt_save_index == actual_index

\* process_dataset(start_index=start_arg, max_count=max_count,
\* auto_continue=auto_continue) from its entry to the head of its record or
\* batch loop.
process_dataset_call(start_arg, max_count, auto_continue) ==
    /\ pc = "start"
    /\ LET s == resolve_start(start_arg, auto_continue)
           e == resolve_end(s, max_count)
           auto == start_arg = << >> /\ auto_continue
           \* what get_auto_start_index read from the progress file
           loaded == IF auto
                     THEN << Ev("load", load_progress.last_processed_index,
                                progress_file.state, 0, 0) >>
                     ELSE << >>
       IN /\ events' = events \o loaded
                           \o << Ev("start", s, IF auto THEN "auto" ELSE "manual", 0, 0) >>
          /\ IF s >= Len(data)
             THEN /\ pc' = "done"
                  /\ UNCHANGED <<start_index, end_index>>
             ELSE /\ start_index' = s
                  /\ end_index' = e
                  /\ pc' = IF batch_config.enable_batching
                           THEN "batch_loop" ELSE "seq_loop"
    /\ success_count' = 0 /\ failed_count' = 0
    /\ batch_start' = 0 /\ batch_count' = 0
    /\ i' = 0
    /\ UNCHANGED <<cfgVars, managerVars, mainVars, clockVars, diskVars, procVars, batch_success,
                   batch_failed, recVars, cftVars, run_no, faultVars, cftHist, called>>

\* process_dataset, with the arguments main() passes from the command line.
process_dataset ==
    \E start_arg \in StartArgs, max_count \in CountArgs, auto_continue \in BOOLEAN :
        process_dataset_call(start_arg, max_count, auto_continue)

\* Head of the batch loop: the next batch enters _process_batch, or the loop ends.
process_dataset_next_batch ==
    /\ pc = "batch_loop"
    /\ IF batch_start < process_len
       THEN /\ batch_count' = batch_count + 1
            /\ batch_success' = 0 /\ batch_failed' = 0
            /\ i' = 0
            /\ pc' = "pb_loop"
            /\ UNCHANGED batch_start
       ELSE /\ pc' = "done"
            /\ batch_start' = 0 /\ batch_count' = 0
            /\ UNCHANGED <<batch_success, batch_failed, i>>
    /\ UNCHANGED <<cfgVars, managerVars, mainVars, clockVars, diskVars, procVars, runVars, recVars, cftVars, run_no,
                   faultVars, events, cftHist, called>>

\* Head of _process_batch's record loop: the next record, or return.
process_batch_next_record ==
    /\ pc = "pb_loop"
    /\ IF i < batch_len
       THEN /\ pc' = "pst_begin"
            /\ events' = Append(events, Ev("process", actual_index, "", 0, 0))
            /\ UNCHANGED i
       ELSE /\ pc' = "batch_after"
            /\ i' = 0
            /\ UNCHANGED events
    /\ UNCHANGED <<cfgVars, managerVars, mainVars, clockVars, diskVars, procVars, runVars, batchVars, recVars,
                   cftVars, run_no, faultVars, cftHist, called>>

\* _process_batch after process_single_tweet returned: count, buffer sleep.
process_batch_count ==
    /\ pc = "pst_return"
    /\ batch_config.enable_batching
    /\ batch_success' = IF ret THEN batch_success + 1 ELSE batch_success
    /\ batch_failed' = IF ret THEN batch_failed ELSE batch_failed + 1
    /\ ret' = FALSE /\ why' = ""
    /\ \/ /\ i' = i + 1
          /\ pc' = "pb_loop"
          /\ UNCHANGED <<interrupts, events>>
       \/ \* KeyboardInterrupt during time.sleep(api_call_buffer_time)
          /\ i < batch_len - 1
          /\ batch_config.api_call_buffer_time > 0
          /\ interrupts < MaxInterrupts
          /\ interrupts' = interrupts + 1
          /\ events' = Append(events, Ev("interrupt", actual_index, "buffer", 0, 0))
          /\ pc' = "KeyboardInterrupt"
          /\ UNCHANGED i
    /\ UNCHANGED <<cfgVars, managerVars, mainVars, clockVars, diskVars, procVars, runVars, batch_start, batch_count,
                   title, body, cftVars, run_no, fs_faults, cftHist, called>>

\* _process_batch's except KeyboardInterrupt: break.
process_batch_KeyboardInterrupt ==
    /\ pc = "KeyboardInterrupt"
    /\ batch_config.enable_batching
    /\ pc' = "batch_after"
    /\ i' = 0
    /\ title' = << >> /\ body' = << >> /\ ret' = FALSE /\ why' = ""
    /\ calls' = << >> /\ stats0' = api_stats /\ UNCHANGED returned
    /\ task_name' = "" /\ response' = None
    /\ UNCHANGED <<cfgVars, managerVars, mainVars, clockVars, diskVars, procVars, runVars, batchVars,
                   attempt, cand, run_no, faultVars, events, called>>

\* A faulty variant of process_batch_Exception: the exception ends the batch.
process_batch_Exception_break ==
    /\ pc = "Exception"
    /\ batch_config.enable_batching
    /\ batch_failed' = batch_failed + 1
    /\ i' = 0
    /\ pc' = "batch_after"
    /\ UNCHANGED <<cfgVars, managerVars, mainVars, clockVars, diskVars, procVars, runVars, batch_start, batch_count,
                   batch_success, recVars, cftVars, run_no, faultVars, events,
                   cftHist, called>>

\* _process_batch's except Exception: count a failure, next record.
process_batch_Exception ==
    /\ pc = "Exception"
    /\ batch_config.enable_batching
    /\ batch_failed' = batch_failed + 1
    /\ i' = i + 1
    /\ pc' = "pb_loop"
    /\ UNCHANGED <<cfgVars, managerVars, mainVars, clockVars, diskVars, procVars, runVars, batch_start, batch_count,
                   batch_success, recVars, cftVars, run_no, faultVars, events,
                   cftHist, called>>

\* process_dataset after _process_batch returned: totals, checkpoint, rest.
process_dataset_batch_done ==
    /\ pc = "batch_after"
    /\ LET s == success_count + batch_success
           f == failed_count + batch_failed
           saved == IF saves_after_batch(batch_count)
                    THEN << Ev("save", batch_last_index, "", s, f) >> ELSE << >>
       IN /\ success_count' = s
          /\ failed_count' = f
          /\ progress_file' = IF saves_after_batch(batch_count)
                              THEN saved_progress(batch_last_index, s, f)
                              ELSE progress_file
          /\ \/ /\ events' = events \o saved
                /\ batch_start' = batch_start + batch_config.batch_size
                /\ pc' = "batch_loop"
                /\ UNCHANGED interrupts
             \/ \* KeyboardInterrupt during time.sleep(batch_rest_time): no handler
                /\ batch_count < total_batches
                /\ batch_config.batch_rest_time > 0
                /\ interrupts < MaxInterrupts
                /\ interrupts' = interrupts + 1
                /\ events' = events \o saved
                                \o << Ev("interrupt", batch_last_index, "rest", 0, 0) >>
                /\ pc' = "aborted"
                /\ UNCHANGED batch_start
    /\ batch_success' = 0 /\ batch_failed' = 0
    /\ UNCHANGED <<cfgVars, managerVars, mainVars, clockVars, output_dir, procVars, start_index, end_index, batch_count,
                   i, recVars, cftVars, run_no, fs_faults, cftHist, called>>

\* Head of the non-batched record loop: the next record, or the end of the run.
process_dataset_next_record ==
    /\ pc = "seq_loop"
    /\ IF i < process_len
       THEN /\ pc' = "pst_begin"
            /\ events' = Append(events, Ev("process", actual_index, "", 0, 0))
            /\ UNCHANGED i
       ELSE /\ pc' = "done"
            /\ i' = 0
            /\ UNCHANGED events
    /\ UNCHANGED <<cfgVars, managerVars, mainVars, clockVars, diskVars, procVars, runVars, batchVars, recVars,
                   cftVars, run_no, faultVars, cftHist, called>>

\* Non-batched mode after process_single_tweet returned: count, checkpoint.
process_dataset_count ==
    /\ pc = "pst_return"
    /\ ~batch_config.enable_batching
    /\ LET s == IF ret THEN success_count + 1 ELSE success_count
           f == IF ret THEN failed_count ELSE failed_count + 1
       IN /\ success_count' = s
          /\ failed_count' = f
          /\ progress_file' = saved_progress(actual_index, s, f)
          /\ events' = Append(events, Ev("save", actual_index, "", s, f))
    /\ ret' = FALSE /\ why' = ""
    /\ i' = i + 1
    /\ pc' = "seq_loop"
    /\ UNCHANGED <<cfgVars, managerVars, mainVars, clockVars, output_dir, procVars, start_index, end_index, batchVars,
                   title, body, cftVars, run_no, faultVars, cftHist, called>>

\* Non-batched mode's except KeyboardInterrupt: checkpoint, break.
process_dataset_KeyboardInterrupt ==
    /\ pc = "KeyboardInterrupt"
    /\ ~batch_config.enable_batching
    /\ progress_file' = saved_progress(interrupt_save_index, success_count, failed_count)
    /\ events' = Append(events, Ev("save", interrupt_save_index, "",
                                   success_count, failed_count))
    /\ pc' = "done"
    /\ i' = 0
    /\ title' = << >> /\ body' = << >> /\ ret' = FALSE /\ why' = ""
    /\ calls' = << >> /\ stats0' = api_stats /\ UNCHANGED returned
    /\ task_name' = "" /\ response' = None
    /\ UNCHANGED <<cfgVars, managerVars, mainVars, clockVars, output_dir, procVars, runVars, batchVars,
                   attempt, cand, run_no, faultVars, called>>

\* A faulty variant of process_dataset_Exception: the failure is counted but
\* no checkpoint is saved.
process_dataset_Exception_unsaved ==
    /\ pc = "Exception"
    /\ ~batch_config.enable_batching
    /\ failed_count' = failed_count + 1
    /\ i' = i + 1
    /\ pc' = "seq_loop"
    /\ UNCHANGED <<cfgVars, managerVars, mainVars, clockVars, diskVars, procVars, start_index, end_index,
                   success_count, batchVars, recVars, cftVars, run_no, faultVars,
                   events, cftHist, called>>

\* Non-batched mode's except Exception: count a failure, checkpoint, go on.
process_dataset_Exception ==
    /\ pc = "Exception"
    /\ ~batch_config.enable_batching
    /\ failed_count' = failed_count + 1
    /\ progress_file' = saved_progress(actual_index, success_count, failed_count + 1)
    /\ events' = Append(events, Ev("save", actual_index, "",
                                   success_count, failed_count + 1))
    /\ i' = i + 1
    /\ pc' = "seq_loop"
    /\ UNCHANGED <<cfgVars, managerVars, mainVars, clockVars, output_dir, procVars, start_index, end_index,
                   success_count, batchVars, recVars, cftVars, run_no, faultVars,
                   cftHist, called>>

\* The program is started again: a new TweetProcessor over the same working
\* directory, configuration and dataset.
TweetProcessor_init ==
    /\ pc \in {"done", "aborted"}
    /\ run_no < MaxRuns
    /\ run_no' = run_no + 1
    /\ pc' = "start"
    /\ clients' = << >> /\ constructed' = 0
    /\ api_stats' = [k \in StatKeys |-> 0]
    /\ stats0' = [k \in StatKeys |-> 0]
    /\ returned' = 0
    /\ calls' = << >>
    /\ events' = << >>
    /\ called' = {}
    /\ start_index' = 0 /\ end_index' = 0 /\ success_count' = 0 /\ failed_count' = 0
    /\ batch_start' = 0 /\ batch_count' = 0 /\ batch_success' = 0 /\ batch_failed' = 0
    /\ i' = 0
    /\ title' = << >> /\ body' = << >> /\ ret' = FALSE /\ why' = ""
    /\ task_name' = "" /\ attempt' = 0 /\ cand' = 0 /\ response' = None
    /\ UNCHANGED <<cfgVars, managerVars, mainVars, clockVars, diskVars, faultVars>>

Next ==
    \/ process_dataset
    \/ process_dataset_next_batch
    \/ process_batch_next_record
    \/ process_batch_count
    \/ process_batch_KeyboardInterrupt
    \/ process_batch_Exception
    \/ process_dataset_batch_done
    \/ process_dataset_next_record
    \/ process_dataset_count
    \/ process_dataset_KeyboardInterrupt
    \/ process_dataset_Exception
    \/ process_single_tweet_begin
    \/ process_single_tweet_title
    \/ process_single_tweet_body
    \/ process_single_tweet_svg
    \/ call_api_for_task_try
    \/ call_api_for_task_backoff
    \/ call_api_for_task_failed
    \/ TweetProcessor_init

\* Every dataset and every batch configuration, one candidate per task.
Init ==
    /\ data \in [1..MaxRecords -> RecordKinds]
    /\ task_config = SimpleTasks
    /\ batch_config \in BatchConfigs
    /\ Constructed

Spec == Init /\ [][Next]_vars

\* Every task setting, over a dataset of one record, in the default batched
\* and non-batched configurations.
InitFailover ==
    /\ data \in [1..1 -> RecordKinds]
    /\ task_config \in TaskSettings
    /\ batch_config \in {b \in BatchConfigs :
                             /\ b.batch_size = MaxRecords
                             /\ b.progress_save_interval = MaxRecords
                             /\ b.api_call_buffer_time > 0
                             /\ b.batch_rest_time > 0}
    /\ Constructed

SpecFailover == InitFailover /\ [][Next]_vars

\* Every task setting over a dataset of one record, with every max_retries
\* argument from 1 to MaxRetries.
InitRetries ==
    /\ data \in [1..1 -> RecordKinds]
    /\ task_config \in TaskSettings
    /\ batch_config \in {b \in BatchConfigs :
                             /\ b.batch_size = MaxRecords
                             /\ b.progress_save_interval = MaxRecords
                             /\ b.api_call_buffer_time > 0
                             /\ b.batch_rest_time > 0}
    /\ max_retries \in 1..MaxRetries
    /\ progress_file = [state |-> "absent", content |-> ZeroProgress]
    /\ output_dir = << >>
    /\ clients = << >> /\ constructed = 0
    /\ api_stats = [k \in StatKeys |-> 0]
    /\ pc = "start"
    /\ start_index = 0 /\ end_index = 0 /\ success_count = 0 /\ failed_count = 0
    /\ batch_start = 0 /\ batch_count = 0 /\ batch_success = 0 /\ batch_failed = 0
    /\ i = 0
    /\ title = << >> /\ body = << >> /\ ret = FALSE /\ why = ""
    /\ task_name = "" /\ attempt = 0 /\ cand = 0 /\ response = None
    /\ run_no = 1 /\ interrupts = 0 /\ fs_faults = 0
    /\ events = << >> /\ calls = << >> /\ stats0 = api_stats /\ called = {}
    /\ returned = 0
    /\ config_faults = {} /\ exit_status = << >>
    /\ now = Epoch /\ last_call_time = [c \in ClientClasses |-> 0] /\ issued = << >>
    /\ manager = NoManager /\ cwf = Idle

\* The thread runs on: a provider call returns (the requests have a
\* timeout) and time.sleep returns, so a step of _call_api_for_task that can
\* be taken is taken.
SpecRetries ==
    /\ InitRetries
    /\ [][Next]_vars
    /\ WF_vars(call_api_for_task_try)
    /\ WF_vars(call_api_for_task_backoff)
    /\ WF_vars(call_api_for_task_failed)

\* One batched run of the program.
NextBatched ==
    \/ process_dataset
    \/ process_dataset_next_batch
    \/ process_batch_next_record
    \/ process_batch_count
    \/ process_batch_KeyboardInterrupt
    \/ process_batch_Exception
    \/ process_dataset_batch_done
    \/ process_single_tweet_begin
    \/ process_single_tweet_title
    \/ process_single_tweet_body
    \/ process_single_tweet_svg
    \/ call_api_for_task_try
    \/ call_api_for_task_backoff
    \/ call_api_for_task_failed

\* A dataset one record longer than the largest chunk, of records with text
\* and elements that are not dicts, under every batched configuration.
InitLong ==
    /\ data \in [1..(MaxRecords + 1) -> {"text", "bad"}]
    /\ task_config = SimpleTasks
    /\ batch_config \in {b \in BatchConfigs : b.enable_batching}
    /\ Constructed

SpecLong == InitLong /\ [][NextBatched]_vars

\* Two candidates whose provider and model differ and whose parts, joined by
\* an underscore, read the same: "pA" with "m_1", and "pA_m" with "1".
\* pA_m is not in api_providers.
CK1 == <<"pA", "m_1">>
CK2 == <<"pA_m", "1">>

\* A "tasks" section whose title task has the two candidates, in either order.
CollidingTasks ==
    { [title |-> <<CK1, CK2, NoCand, NoCand>>, body |-> Only(CA), svg |-> Only(CA)],
      [title |-> <<CK2, CK1, NoCand, NoCand>>, body |-> Only(CA), svg |-> Only(CA)] }

InitColliding ==
    /\ data \in [1..1 -> RecordKinds]
    /\ task_config \in CollidingTasks
    /\ batch_config \in {b \in BatchConfigs :
                             /\ b.batch_size = MaxRecords
                             /\ b.progress_save_interval = MaxRecords
                             /\ b.api_call_buffer_time > 0
                             /\ b.batch_rest_time > 0}
    /\ Constructed

SpecColliding == InitColliding /\ [][Next]_vars

\* What an earlier run can have left of one folder: nothing, the folder
\* alone (mkdir done, first write failed), the first file only, or all
\* three, written for record 0.
PriorFolders ==
    { [file \in {FileOrder[k] : k \in 1..n} |-> <<0, 0>>] : n \in {0, 1, 3} }

\* Output directories left by earlier runs whose titles were "b": the
\* folder b in any state, and b_1 in any state once b exists.
PriorDirs ==
    { << >> }
    \cup { (<<"b">> :> f) : f \in PriorFolders }
    \cup { (<<"b">> :> f) @@ (<<"b", "_", "1">> :> g) :
              f \in PriorFolders, g \in PriorFolders }

\* The progress file at start-up: absent, unreadable (its content is then
\* never seen), or a checkpoint saved by an earlier run, possibly over a
\* longer dataset.
PriorProgress ==
    { [state |-> "absent", content |-> ZeroProgress],
      [state |-> "corrupt",
       content |-> [last_processed_index |-> 1, total_processed |-> 2,
                    total_success |-> 1, total_failed |-> 1]] }
    \cup { saved_progress(k, k + 1, 0) : k \in 0..MaxRecords }

\* A processor constructed over a working directory that earlier runs used;
\* the dataset is records with text, or one record of another kind.
InitDisk ==
    /\ data \in { [k \in 1..n |-> "text"] : n \in 1..MaxRecords }
                  \cup { <<kind>> : kind \in RecordKinds }
    /\ task_config = SimpleTasks
    /\ max_retries = default_max_retries
    /\ batch_config \in {b \in BatchConfigs :
                             /\ b.batch_size = MaxRecords
                             /\ b.progress_save_interval = MaxRecords
                             /\ b.api_call_buffer_time > 0
                             /\ b.batch_rest_time > 0}
    /\ progress_file \in PriorProgress
    /\ output_dir \in PriorDirs
    /\ clients = << >> /\ constructed = 0
    /\ api_stats = [k \in StatKeys |-> 0]
    /\ pc = "start"
    /\ start_index = 0 /\ end_index = 0 /\ success_count = 0 /\ failed_count = 0
    /\ batch_start = 0 /\ batch_count = 0 /\ batch_success = 0 /\ batch_failed = 0
    /\ i = 0
    /\ title = << >> /\ body = << >> /\ ret = FALSE /\ why = ""
    /\ task_name = "" /\ attempt = 0 /\ cand = 0 /\ response = None
    /\ run_no = 1 /\ interrupts = 0 /\ fs_faults = 0
    /\ events = << >> /\ calls = << >> /\ stats0 = api_stats /\ called = {}
    /\ returned = 0
    /\ config_faults = {} /\ exit_status = << >>
    /\ now = Epoch /\ last_call_time = [c \in ClientClasses |-> 0] /\ issued = << >>
    /\ manager = NoManager /\ cwf = Idle

SpecDisk == InitDisk /\ [][Next]_vars


\* The "tasks" sections with candidates that cannot be served: a title whose
\* candidates are a disabled provider, a provider without key and an unknown
\* provider; and tasks that name such a candidate before a usable one.
MisconfiguredTasks ==
    { [title |-> <<CX, CN, CU, NoCand>>, body |-> Only(CA), svg |-> Only(CA)],
      [title |-> <<CU, CA, NoCand, NoCand>>,
       body  |-> <<CX, CA, NoCand, NoCand>>,
       svg   |-> <<CN, CA, NoCand, NoCand>>] }

\* Records with text, or one record of another kind, under a task
\* configuration with candidates that cannot be served.
InitMisconfigured ==
    /\ data \in { [k \in 1..MaxRecords |-> "text"] } \cup { <<kind>> : kind \in RecordKinds }
    /\ task_config \in MisconfiguredTasks
    /\ batch_config \in {b \in BatchConfigs :
                             /\ b.batch_size = MaxRecords
                             /\ b.progress_save_interval = MaxRecords
                             /\ b.api_call_buffer_time > 0
                             /\ b.batch_rest_time > 0}
    /\ Constructed

SpecMisconfigured == InitMisconfigured /\ [][Next]_vars

\* ---------------------------------------------------------------- resume point
\* What the progress file can hold that json.load parses to a dict: a
\* checkpoint with any integer as last_processed_index, or one without
\* that field.
ParseableProgress ==
    { [last_processed_index |-> k, total_processed |-> 0,
       total_success |-> 0, total_failed |-> 0] : k \in (0 - 3)..(MaxRecords + 1) }
    \cup { [total_processed |-> 0, total_success |-> 0, total_failed |-> 0] }

\* process_dataset(start_index=None, auto_continue=True) up to the start
\* index it resumes at (lines 544-546).
process_dataset_resume ==
    /\ pc = "start"
    /\ start_index' = get_auto_start_index
    /\ events' = Append(events, Ev("start", get_auto_start_index, "auto", 0, 0))
    /\ pc' = "resumed"
    /\ UNCHANGED <<cfgVars, managerVars, mainVars, clockVars, diskVars, procVars, end_index,
                   success_count, failed_count, batchVars, i, recVars, cftVars,
                   run_no, faultVars, cftHist, called>>

NextResume == process_dataset_resume

\* A processor that finds a progress file with any parseable content, or
\* none, over any dataset.
InitResume ==
    /\ data \in UNION { [1..n -> RecordKinds] : n \in 1..MaxRecords }
    /\ task_config = SimpleTasks
    /\ batch_config \in {b \in BatchConfigs : ~b.enable_batching}
    /\ max_retries = default_max_retries
    /\ progress_file \in { [state |-> "absent", content |-> ZeroProgress] }
                           \cup { [state |-> "ok", content |-> c] : c \in ParseableProgress }
    /\ output_dir = << >>
    /\ clients = << >> /\ constructed = 0
    /\ api_stats = [k \in StatKeys |-> 0]
    /\ pc = "start"
    /\ start_index = 0 /\ end_index = 0 /\ success_count = 0 /\ failed_count = 0
    /\ batch_start = 0 /\ batch_count = 0 /\ batch_success = 0 /\ batch_failed = 0
    /\ i = 0
    /\ title = << >> /\ body = << >> /\ ret = FALSE /\ why = ""
    /\ task_name = "" /\ attempt = 0 /\ cand = 0 /\ response = None
    /\ run_no = 1 /\ interrupts = 0 /\ fs_faults = 0
    /\ events = << >> /\ calls = << >> /\ stats0 = api_stats /\ called = {}
    /\ returned = 0
    /\ config_faults = {} /\ exit_status = << >>
    /\ now = Epoch /\ last_call_time = [c \in ClientClasses |-> 0] /\ issued = << >>
    /\ manager = NoManager /\ cwf = Idle

SpecResume == InitResume /\ [][NextResume]_vars

\* ------------------------------------------------------------------------ main
\* What can be wrong with the configuration that main() loads.
ConfigFaults ==
    {"missing_section", "missing_field", "key_unset", "key_malformed", "file_missing"}

\* ConfigValidator.validate_config: the structure errors.
validate_config(faults) == faults \cap {"missing_section", "missing_field"}

\* ConfigValidator.validate_api_keys: enabled providers whose key is unset
\* or does not match the provider's pattern.
validate_api_keys(faults) == faults \cap {"key_unset", "key_malformed"}

\* ConfigValidator.validate_files_exist: required files that are missing.
validate_files_exist(faults) == faults \cap {"file_missing"}

\* A faulty variant of validation_errors: only the structure is validated.
validation_errors_structure_only ==
    validate_config(config_faults)

\* errors of ConfigManager._validate_config
validation_errors ==
    validate_config(config_faults)
        \cup validate_api_keys(config_faults)
        \cup validate_files_exist(config_faults)

\* main() from its entry to the call of process_dataset: the configuration
\* is loaded and validated, the processor is constructed, the progress file is
\* removed when --reset-progress is given.  A validation error is a
\* ValueError, caught at line 718: return 1.
main ==
    /\ pc = "main"
    /\ IF validation_errors # {}
       THEN /\ pc' = "exit"
            /\ exit_status' = << 1 >>
            /\ UNCHANGED progress_file
       ELSE /\ pc' = "start"
            /\ \E reset_progress \in BOOLEAN :
                  progress_file' =
                      IF reset_progress
                      THEN [state |-> "absent", content |-> ZeroProgress]
                      ELSE progress_file
            /\ UNCHANGED exit_status
    /\ UNCHANGED <<cfgVars, managerVars, config_faults, clockVars, output_dir, procVars, runVars,
                   batchVars, i, recVars, cftVars, run_no, faultVars, events, cftHist,
                   called>>

\* main() after process_dataset returned: return 0.
main_return ==
    /\ pc = "done"
    /\ pc' = "exit"
    /\ exit_status' = << 0 >>
    /\ UNCHANGED <<cfgVars, managerVars, config_faults, clockVars, diskVars, procVars, runVars,
                   batchVars, i, recVars, cftVars, run_no, faultVars, events, cftHist,
                   called>>

NextMain ==
    \/ main
    \/ main_return
    \/ Next

\* The program at the entry of main(): one record, any configuration fault,
\* with or without a checkpoint of an earlier run.
InitMain ==
    /\ data \in [1..1 -> RecordKinds]
    /\ task_config = SimpleTasks
    /\ max_retries = default_max_retries
    /\ batch_config \in {b \in BatchConfigs :
                             /\ b.batch_size = MaxRecords
                             /\ b.progress_save_interval = MaxRecords
                             /\ b.api_call_buffer_time > 0
                             /\ b.batch_rest_time > 0}
    /\ config_faults \in {{}} \cup {{fault} : fault \in ConfigFaults} \cup {ConfigFaults}
    /\ progress_file \in { [state |-> "absent", content |-> ZeroProgress],
                           saved_progress(0, 1, 0) }
    /\ output_dir = << >>
    /\ clients = << >> /\ constructed = 0
    /\ api_stats = [k \in StatKeys |-> 0]
    /\ pc = "main"
    /\ start_index = 0 /\ end_index = 0 /\ success_count = 0 /\ failed_count = 0
    /\ batch_start = 0 /\ batch_count = 0 /\ batch_success = 0 /\ batch_failed = 0
    /\ i = 0
    /\ title = << >> /\ body = << >> /\ ret = FALSE /\ why = ""
    /\ task_name = "" /\ attempt = 0 /\ cand = 0 /\ response = None
    /\ run_no = 1 /\ interrupts = 0 /\ fs_faults = 0
    /\ events = << >> /\ calls = << >> /\ stats0 = api_stats /\ called = {}
    /\ returned = 0
    /\ exit_status = << >>
    /\ now = Epoch /\ last_call_time = [c \in ClientClasses |-> 0] /\ issued = << >>
    /\ manager = NoManager /\ cwf = Idle

SpecMain == InitMain /\ [][NextMain]_vars

\* ---------------------------------------------------------------- ProviderClient
\* The interval a client's call_api passes to _enforce_rate_limit.
min_interval(c) ==
    IF c = "OpenRouterClient" THEN openrouter_interval ELSE gemini_interval

\* A faulty variant of rate_limit_wait: the client never waits.
rate_limit_wait_none(c, current_time) == 0

\* BaseAPIClient._enforce_rate_limit: the time it sleeps when it is entered at
\* current_time (lines 37-42).
rate_limit_wait(c, current_time) ==
    LET time_since_last == current_time - last_call_time[c]
    IN IF time_since_last < min_interval(c)
       THEN min_interval(c) - time_since_last
       ELSE 0

\* time.sleep(t) returns t seconds later, or later than that.
Oversleep == {0, 1}

\* The seconds a request to the provider takes.
Durations == {0, 1}

\* The seconds a caller lets pass between two calls.
Pauses == {1, 2, 4}

\* One entry of issued: a call attempt on client c that began at asked,
\* slept waited seconds for the rate limit and stamped _last_call_time.
Attempt(c, asked, waited, stamp, ok) ==
    [client |-> c, asked |-> asked, waited |-> waited, stamp |-> stamp, ok |-> ok]

\* client.call_api(system_prompt, user_content): the rate limit, the stamp,
\* then the request, which returns content (ok) or raises and gives None.
call_api(c) ==
    /\ Len(issued) < MaxCalls
    /\ LET limit_wait == rate_limit_wait(c, now)
       IN \E late \in (IF limit_wait > 0 THEN Oversleep ELSE {0}),
             took \in Durations, ok \in BOOLEAN :
             LET stamp == now + limit_wait + late
             IN /\ stamp + took <= MaxTime
                /\ last_call_time' = [last_call_time EXCEPT ![c] = stamp]
                /\ now' = stamp + took
                /\ issued' = Append(issued, Attempt(c, now, limit_wait, stamp, ok))
    /\ UNCHANGED <<cfgVars, managerVars, mainVars, diskVars, procVars, pc, runVars, batchVars, i,
                   recVars, cftVars, run_no, faultVars, events, cftHist, called>>

\* KeyboardInterrupt during _enforce_rate_limit's time.sleep(wait_time): the
\* stamp of line 43 is not reached and no request is made.
call_api_KeyboardInterrupt(c) ==
    /\ interrupts < MaxInterrupts
    /\ rate_limit_wait(c, now) > 0
    /\ \E slept \in 0..(rate_limit_wait(c, now) - 1) : now' = now + slept
    /\ interrupts' = interrupts + 1
    /\ UNCHANGED <<cfgVars, managerVars, mainVars, last_call_time, issued, diskVars, procVars, pc,
                   runVars, batchVars, i, recVars, cftVars, run_no, fs_faults, events,
                   cftHist, called>>

\* Time passes in the caller between two calls.
elapse ==
    /\ \E pause \in Pauses : now + pause <= MaxTime /\ now' = now + pause
    /\ UNCHANGED <<cfgVars, managerVars, mainVars, last_call_time, issued, diskVars, procVars, pc,
                   runVars, batchVars, i, recVars, cftVars, run_no, faultVars, events,
                   cftHist, called>>

NextRate ==
    \/ \E c \in ClientClasses : call_api(c)
    \/ \E c \in ClientClasses : call_api_KeyboardInterrupt(c)
    \/ elapse

\* One client of each class, new, in the hands of a caller.
InitRate ==
    /\ data = << "text" >>
    /\ task_config = SimpleTasks
    /\ batch_config \in {b \in BatchConfigs : ~b.enable_batching}
    /\ Constructed

SpecRate == InitRate /\ [][NextRate]_vars

\* hasattr(client, 'reset_rate_limit'), line 234: no client class of
\* api_client.py defines the method.
has_reset_rate_limit(c) == FALSE

\* The entry of issued that marks the start of a chunk.
ChunkStart == Attempt("_process_batch", now, 0, now, TRUE)

\* _process_batch, lines 232-235: at the start of a chunk every client that
\* has a reset_rate_limit method is asked to reset its timer.
process_batch_reset ==
    /\ Len(issued) < MaxCalls + 1
    /\ last_call_time' = [c \in ClientClasses |->
                             IF has_reset_rate_limit(c) THEN 0 ELSE last_call_time[c]]
    /\ issued' = Append(issued, ChunkStart)
    /\ UNCHANGED <<cfgVars, managerVars, mainVars, now, diskVars, procVars, pc, runVars, batchVars,
                   i, recVars, cftVars, run_no, faultVars, events, cftHist, called>>

NextChunks ==
    \/ process_batch_reset
    \/ NextRate

\* One client of each class in the hands of a batched run.
InitChunks ==
    /\ data = << "text" >>
    /\ task_config = SimpleTasks
    /\ batch_config \in {b \in BatchConfigs :
                             /\ b.enable_batching
                             /\ b.batch_size = 1
                             /\ b.progress_save_interval = 1
                             /\ b.batch_rest_time > 0}
    /\ Constructed

SpecChunks == InitChunks /\ [][NextChunks]_vars

\* --------------------------------------------------------------- properties
Last(seq) == seq[Len(seq)]

\* _call_api_for_task has just returned to process_single_tweet.
JustReturned == pc \in {"after_title", "after_body", "after_svg"}

\* The candidates of a task as the configuration lists them: primary,
\* fallback, fallback2, fallback3, the unset ones left out.
ConfiguredOrder(task) ==
    LET tc == get_task_config(task)
        one(c) == IF c = NoCand THEN << >> ELSE << c >>
    IN one(tc[1]) \o one(tc[2]) \o one(tc[3]) \o one(tc[4])

\* The entries of the current invocation that belong to attempt a and are
\* candidates (called, or skipped for want of a client), in order.
TriedIn(a) == SelectSeq(calls, LAMBDA e : e.kind # "sleep" /\ e.attempt = a)

Sleeps == SelectSeq(calls, LAMBDA e : e.kind = "sleep")

RECURSIVE SumOver(_, _)
SumOver(f, keys) ==
    IF keys = {} THEN 0
    ELSE LET k == CHOOSE x \in keys : TRUE IN f[k] + SumOver(f, keys \ {k})

\* The invocation that just returned found candidates [A, B, C] of three
\* providers, and in its last attempt A and B failed and C answered.
C1_Case ==
    /\ JustReturned
    /\ LET order == ConfiguredOrder(task_name)
           tried == TriedIn(Last(calls).attempt)
       IN /\ Len(order) = 3
          /\ Cardinality({order[k][1] : k \in 1..3}) = 3
          /\ calls # << >>
          /\ Len(tried) = 3
          /\ \A k \in 1..3 : tried[k].api = order[k]
          /\ ~tried[1].ok /\ ~tried[2].ok /\ tried[3].ok

\* C1: with candidates [A, B, C] of distinct providers, A and B failing and C
\* returning non-empty text, call_for_task returns C's text, adds exactly one
\* to UsageStats[C] and leaves every other counter, "failed" included, as it was.
C1_FailoverReturnsThird ==
    C1_Case =>
        /\ response = Last(calls).reply
        /\ Truthy(response)
        /\ api_stats = [stats0 EXCEPT ![ConfiguredOrder(task_name)[3][1]] = @ + 1]

C1_Witness == C1_Case /\ task_name = "title" /\ response = Str(<<"b">>)

\* C2: once a candidate's call returned a non-empty result, the invocation
\* makes no further call and takes no backoff sleep: the successful call is
\* the last thing the invocation did, and the retry loop has been left.
C2_FirstSuccessShortCircuits ==
    \A k \in 1..Len(calls) :
        calls[k].ok => (k = Len(calls) /\ pc # "cft_loop")

\* A success at the first attempt by a candidate that is not the last one.
C2_Witness ==
    /\ JustReturned
    /\ calls # << >>
    /\ Last(calls).ok
    /\ Last(calls).attempt = 0
    /\ Len(ConfiguredOrder(task_name)) = 3
    /\ Last(calls).api = ConfiguredOrder(task_name)[1]

\* C3: when no candidate succeeds in any of the max_retries = 3 attempts, the
\* invocation sleeps 5 s after attempt 0 and 10 s after attempt 1, each sleep
\* after all calls of its attempt and before those of the next, never after
\* attempt 2; it returns none and adds exactly one to "failed", nothing else.
C3_AllFailBackoff ==
    (JustReturned /\ ~Truthy(response)) =>
        /\ response = None
        /\ [k \in 1..Len(Sleeps) |-> <<Sleeps[k].attempt, Sleeps[k].wait>>]
              = << <<0, 5>>, <<1, 10>> >>
        /\ \A j, k \in 1..Len(calls) :
              j < k =>
                 /\ calls[j].attempt <= calls[k].attempt
                 /\ calls[j].kind = "sleep" => calls[j].attempt < calls[k].attempt
        /\ \A a \in 0..(max_retries - 1) :
              Len(TriedIn(a)) = Len(ConfiguredOrder(task_name))
        /\ api_stats = [stats0 EXCEPT !["failed"] = @ + 1]

\* Nine failed calls: three candidates, three attempts.
C3_Witness ==
    /\ JustReturned
    /\ ~Truthy(response)
    /\ Len(ConfiguredOrder(task_name)) = 3
    /\ Len(SelectSeq(calls, LAMBDA e : e.kind = "call")) = 9

\* C4: in every attempt the candidates are taken in the configured order
\* primary, fallback, fallback2, fallback3, from the primary again in each new
\* attempt, and a candidate is only reached when all before it in that
\* attempt have failed.
C4_PriorityOrderEveryAttempt ==
    \A a \in 0..(max_retries - 1) :
        LET tried == TriedIn(a)
            order == ConfiguredOrder(task_name)
        IN /\ Len(tried) <= Len(order)
           /\ \A k \in 1..Len(tried) :
                 /\ tried[k].api = order[k]
                 /\ k < Len(tried) => ~tried[k].ok

\* The second attempt has reached the third candidate.
C4_Witness ==
    /\ pc = "cft_loop"
    /\ Len(TriedIn(1)) = 3
    /\ TriedIn(1)[3].kind = "call"
    /\ TriedIn(0)[1].kind = "call"

\* C5: an invocation that returns adds one to exactly one counter: the
\* provider of the candidate that answered when it returns text, "failed"
\* when it returns none; so the counters always sum to the number of
\* invocations that returned.
C5_OneIncrementPerInvocation ==
    /\ JustReturned =>
          IF Truthy(response)
          THEN /\ calls # << >>
               /\ Last(calls).ok
               /\ api_stats = [stats0 EXCEPT ![Last(calls).api[1]] = @ + 1]
          ELSE api_stats = [stats0 EXCEPT !["failed"] = @ + 1]
    /\ SumOver(api_stats, StatKeys) = returned

\* Three invocations returned: two answered by different providers, one failed.
C5_Witness ==
    /\ returned = 3
    /\ api_stats["failed"] = 1
    /\ Cardinality({p \in StatKeys : api_stats[p] = 1}) = 3

\* The indices of the events of the given types that follow position n.
IndicesAfter(n, types) ==
    {events[m].idx : m \in {x \in (n + 1)..Len(events) : events[x].type \in types}}

\* The records this run wrote an artifact for.
WrittenThisRun ==
    {x \in 0..(MaxRecords - 1) :
        \E d \in DOMAIN output_dir :
            \E f \in DOMAIN output_dir[d] : output_dir[d][f] = <<run_no, x>>}

\* C6: with a checkpoint of last_processed_index = k on disk,
\* get_auto_start_index is k + 1; and a run that was started with
\* auto-continue over such a checkpoint begins at k + 1, hands no record
\* 0..k to process_single_tweet, makes no provider call for one and writes no
\* artifact for one.
C6_ResumeAfterCheckpoint ==
    /\ progress_file.state = "ok" =>
          get_auto_start_index = progress_file.content.last_processed_index + 1
    /\ (events # << >> /\ events[1].type = "load" /\ events[1].note = "ok") =>
          LET k == events[1].idx
          IN /\ events[2].type = "start"
             /\ events[2].idx = k + 1
             /\ \A x \in IndicesAfter(1, {"process", "return", "exception", "write"}) :
                   x > k
             /\ \A x \in called \cup WrittenThisRun : x > k

\* A restarted run resumed after a checkpoint of record 0 and wrote the
\* artifacts of record 1.
C6_Witness ==
    /\ run_no = 2
    /\ events # << >>
    /\ events[1] = Ev("load", 0, "ok", 0, 0)
    /\ 1 \in called
    /\ 1 \in WrittenThisRun

\* The run has ended: process_dataset returned, or an interrupt left it.
RunEnded == pc \in {"done", "aborted"}

\* The positions in events of the interrupts of the given kinds.
Interrupts(kinds) ==
    {n \in 1..Len(events) : events[n].type = "interrupt" /\ events[n].note \in kinds}

\* C7: a run that resumed with auto-continue and was interrupted while record
\* i was being processed ends with a checkpoint whose last_processed_index is
\* i - 1, the last record that was completed.
C7_InterruptCheckpointsLastCompleted ==
    (RunEnded /\ events # << >> /\ events[1].type = "load") =>
        \A n \in Interrupts({"record"}) :
            load_progress.last_processed_index = events[n].idx - 1

\* C8: after an interrupt at any suspension point the run saves a checkpoint
\* and ends by returning from process_dataset, and hands no further record to
\* process_single_tweet.
C8_InterruptSavesAndEnds ==
    \A n \in Interrupts({"record", "buffer", "rest"}) :
        /\ pc # "aborted"
        /\ IndicesAfter(n, {"process"}) = {}
        /\ pc = "done" => \E m \in (n + 1)..Len(events) : events[m].type = "save"

\* C9: every checkpoint a run writes covers, within the run's window, only
\* records whose processing ended before the save: process_single_tweet
\* returned or raised an ordinary exception.
C9_CheckpointCoversCompleted ==
    \A n \in 1..Len(events) :
        events[n].type = "save" =>
            \A j \in start_index..events[n].idx :
                \E m \in 1..(n - 1) :
                    /\ events[m].type \in {"return", "exception"}
                    /\ events[m].idx = j

\* One step of the program, for a record whose body or image generation
\* failed: process_single_tweet returns False and the output directory is as
\* it was; no step before the image's return touches the output directory;
\* and the runner's next step adds one to the failures, none to the successes.
C10_Step ==
    /\ (\/ pc = "after_body" /\ ~Truthy(generate_body(response))
        \/ pc = "after_svg" /\ ~Truthy(generate_svg(response)))
          => /\ pc' = "pst_return"
             /\ ret' = FALSE
             /\ why' \in {"body_failed", "svg_failed"}
             /\ output_dir' = output_dir
    /\ pc \in {"pst_begin", "cft_loop", "after_title", "after_body"}
          => output_dir' = output_dir
    /\ (pc = "pst_return" /\ why \in {"body_failed", "svg_failed"})
          => /\ ~ret
             /\ failed_count' + batch_failed' = failed_count + batch_failed + 1
             /\ success_count' + batch_success' = success_count + batch_success

\* C10: when the body or the image fails after the title succeeded,
\* process_single_tweet creates no folder, writes no file and returns False,
\* and the runner counts the record as failed.
C10_LateFailureWritesNothing == [][C10_Step]_vars

\* The image failed after title and body were answered; nothing is on disk.
C10_Witness ==
    /\ pc = "pst_return"
    /\ why = "svg_failed"
    /\ ~ret
    /\ api_stats["pA"] = 2 /\ api_stats["failed"] = 1
    /\ output_dir = << >>

\* The folder holds the three artifacts, all written for record x.
CompleteFor(folder_path, x) ==
    /\ folder_path \in DOMAIN output_dir
    /\ \A file \in Files :
          /\ file \in DOMAIN output_dir[folder_path]
          /\ output_dir[folder_path][file][2] = x

\* Another record than the current one saved its artifacts in the folder.
SavedByOther(folder_path) ==
    \E x \in 0..(MaxRecords - 1) : x # actual_index /\ CompleteFor(folder_path, x)

\* One step of a record whose title sanitizes to the folder name of another
\* record's saved artifacts: the record goes on to be generated, and its
\* save makes the folder suffixed _1 and leaves the first folder as it was.
C11_Step ==
    /\ (/\ pc = "after_title"
        /\ Truthy(generate_title(response))
        /\ SavedByOther(sanitize_filename(generate_title(response).text)))
          => (pc' = "cft_loop" /\ task_name' = "body")
    /\ (/\ pc = "after_svg"
        /\ SavedByOther(sanitize_filename(title))
        /\ pc' = "pst_return" /\ ret')
          => LET first == sanitize_filename(title)
                 second == first \o <<"_", "1">>
             IN /\ second \notin DOMAIN output_dir
                /\ second \in DOMAIN output_dir'
                /\ \A file \in Files :
                      /\ file \in DOMAIN output_dir'[second]
                      /\ output_dir'[second][file] = <<run_no, actual_index>>
                /\ output_dir'[first] = output_dir[first]

\* C11: two records whose generated titles sanitize to the same folder name
\* are both generated and saved, in two folders, the second suffixed _1, and
\* the first record's artifacts stay as they were.
C11_CollidingTitlesTwoFolders == [][C11_Step]_vars

\* The folder exists and holds generated.svg, title.txt and body.txt.
HasAllArtifacts(folder_path) ==
    /\ folder_path \in DOMAIN output_dir
    /\ {"generated.svg", "title.txt", "body.txt"} \subseteq DOMAIN output_dir[folder_path]

\* The title of the current record has been generated and the folder it
\* sanitizes to holds the three artifacts.
FolderAlreadyComplete ==
    /\ pc = "after_title"
    /\ Truthy(generate_title(response))
    /\ HasAllArtifacts(sanitize_filename(generate_title(response).text))

\* C12 as stated: a record whose folder already holds the three artifacts is
\* treated as done without any provider call having been made for it.
C12_DoneWithoutAnyCall == FolderAlreadyComplete => actual_index \notin called

\* C12, amended: a record whose folder already holds the three artifacts is
\* treated as done after its title request alone: that request has been made,
\* and the record returns success with no further provider call and no
\* further invocation of _call_api_for_task, whichever record wrote the folder.
C12_Step ==
    FolderAlreadyComplete =>
        /\ actual_index \in called
        /\ task_name = "title"
        /\ pc' = "pst_return"
        /\ ret' = TRUE
        /\ called' = called
        /\ api_stats' = api_stats
        /\ returned' = returned

C12_DoneAfterTitleOnly == [][C12_Step]_vars

\* Record 1 was treated as done over the folder that record 0 wrote.
C12_Witness ==
    /\ pc = "pst_return"
    /\ ret
    /\ actual_index = 1
    /\ returned = 4
    /\ \E d \in DOMAIN output_dir : CompleteFor(d, 0)
    /\ ~\E d \in DOMAIN output_dir : CompleteFor(d, 1)

\* One step of process_single_tweet before the body request: the output
\* directory and the progress file stay as they are; and with the title's
\* folder complete the step is the return of True, not a request for the
\* body or the image.
C13_Step ==
    /\ pc \in {"pst_begin", "after_title"} \/ (pc = "cft_loop" /\ task_name = "title")
          => (output_dir' = output_dir /\ progress_file' = progress_file)
    /\ FolderAlreadyComplete =>
          /\ pc' = "pst_return"
          /\ ret' = TRUE
          /\ task_name' \notin {"body", "svg"}
          /\ output_dir' = output_dir
          /\ progress_file' = progress_file

\* C13: when the folder named by the sanitized generated title already holds
\* generated.svg, title.txt and body.txt, process_single_tweet returns True
\* without calling the body or the image task and without creating or
\* changing any file or folder.
C13_CompleteFolderNoNewWork == [][C13_Step]_vars

\* A second run met the folder its first run had written for the same record.
C13_Witness ==
    /\ pc = "pst_return"
    /\ ret
    /\ why = "already_processed"
    /\ run_no = 2
    /\ \E d \in DOMAIN output_dir :
          \A file \in Files :
              /\ file \in DOMAIN output_dir[d]
              /\ output_dir[d][file] = <<1, actual_index>>

\* folder_name with the numeric suffix _k
Suffixed(folder_name, k) == folder_name \o <<"_">> \o int_to_text(k)

\* The smallest k >= 1 whose suffixed name satisfies free.
SmallestSuffix(folder_name, free(_)) ==
    CHOOSE k \in 1..(Cardinality(DOMAIN output_dir) + 1) :
        /\ free(Suffixed(folder_name, k))
        /\ \A j \in 1..(k - 1) : ~free(Suffixed(folder_name, j))

\* The folder does not exist.
Unused(folder_path) == folder_path \notin DOMAIN output_dir

\* The folder does not exist, or exists without any file in it.
UnusedOrEmpty(folder_path) ==
    folder_path \notin DOMAIN output_dir \/ DOMAIN output_dir[folder_path] = {}

\* The folder of the sanitized title exists and lacks one of the artifacts.
Incomplete(folder_path) ==
    folder_path \in DOMAIN output_dir /\ ~HasAllArtifacts(folder_path)

\* One step of a record whose title's folder exists incomplete: the title
\* step goes on to the body request, and a successful save writes the three
\* artifacts into the suffixed folder with the smallest free suffix and
\* changes nothing else.
IncompleteFolderStep(free(_)) ==
    /\ (/\ pc = "after_title"
        /\ Truthy(generate_title(response))
        /\ Incomplete(sanitize_filename(generate_title(response).text)))
          => (pc' = "cft_loop" /\ task_name' = "body")
    /\ (/\ pc = "after_svg"
        /\ Incomplete(sanitize_filename(title))
        /\ pc' = "pst_return" /\ ret')
          => LET folder_name == sanitize_filename(title)
                 fresh == Suffixed(folder_name, SmallestSuffix(folder_name, free))
             IN output_dir' =
                   (fresh :> [file \in Files |-> <<run_no, actual_index>>]) @@ output_dir

\* C14 as stated: the fresh folder has the smallest suffix that names an
\* unused or fully empty folder.
C14_SmallestUnusedOrEmpty == [][IncompleteFolderStep(UnusedOrEmpty)]_vars

\* C14, amended: when the folder of the sanitized title exists but lacks an
\* artifact, the record is never treated as done; it is generated and saved
\* into the folder with the smallest suffix _k (k = 1, 2, ...) that names a
\* folder that does not exist, an existing empty one being passed over.
C14_SmallestUnused == [][IncompleteFolderStep(Unused)]_vars

\* The record was saved as b_2: b is incomplete and b_1 exists.
C14_Witness ==
    /\ pc = "pst_return"
    /\ ret
    /\ Incomplete(<<"b">>)
    /\ <<"b", "_", "1">> \in DOMAIN output_dir
    /\ <<"b", "_", "2">> \in DOMAIN output_dir
    /\ \A file \in Files :
          /\ file \in DOMAIN output_dir[<<"b", "_", "2">>]
          /\ output_dir[<<"b", "_", "2">>][file] = <<run_no, actual_index>>

\* An earlier run saved the complete artifact set of the current record in
\* the folder.
SavedEarlier(folder_path) ==
    /\ folder_path \in DOMAIN output_dir
    /\ \E r \in 0..(run_no - 1) :
          \A file \in Files :
              /\ file \in DOMAIN output_dir[folder_path]
              /\ output_dir[folder_path][file] = <<r, actual_index>>

\* One step of a record that is processed again with the title it was saved
\* under, in the folder of that name or in a suffixed one: it returns True
\* as already done and no folder is added.
C15_Step ==
    (/\ pc = "after_title"
     /\ Truthy(generate_title(response))
     /\ LET folder_name == sanitize_filename(generate_title(response).text)
        IN \/ SavedEarlier(folder_name)
           \/ \E k \in 1..MaxRecords : SavedEarlier(Suffixed(folder_name, k)))
      => /\ pc' = "pst_return"
         /\ ret' = TRUE
         /\ output_dir' = output_dir

\* C15: a record that an earlier run saved completely is recognised as done
\* when it is processed again and the same title is generated, also when its
\* artifacts were saved under a suffixed folder name, and no further folder
\* is created for it.
C15_DoneWhereverSaved == [][C15_Step]_vars

\* C16: get_auto_start_index is last_processed_index + 1 when that index is
\* below N - 1 and N otherwise; a run that is started with auto-continue in
\* the second case hands no record to process_single_tweet, makes no provider
\* call and saves no checkpoint: it ends at once with the progress file as
\* it was loaded.
C16_ResumeIndexClamped ==
    /\ LET last == load_progress.last_processed_index
           N == Len(data)
       IN get_auto_start_index = IF last < N - 1 THEN last + 1 ELSE N
    /\ (events # << >> /\ events[1].type = "load") =>
          IF events[1].idx < Len(data) - 1
          THEN events[2] = Ev("start", events[1].idx + 1, "auto", 0, 0)
          ELSE /\ events = << events[1], Ev("start", Len(data), "auto", 0, 0) >>
               /\ pc = "done"
               /\ called = {}
               /\ progress_file.state = events[1].note
               /\ load_progress.last_processed_index = events[1].idx

\* A run over two records found a checkpoint of index 2 and ended at once.
C16_Witness ==
    /\ pc = "done"
    /\ Len(data) = 2
    /\ events = << Ev("load", 2, "ok", 0, 0), Ev("start", 2, "auto", 0, 0) >>
    /\ progress_file = saved_progress(2, 3, 0)

\* C17: with the progress file absent or unreadable _load_progress gives the
\* zero state {-1, 0, 0, 0}; a run started with auto-continue then begins at
\* index 0 and enters its record loop.
C17_LoadZeroState ==
    /\ progress_file.state \in {"absent", "corrupt"} =>
          /\ load_progress = [last_processed_index |-> -1, total_processed |-> 0,
                              total_success |-> 0, total_failed |-> 0]
          /\ get_auto_start_index = 0
    /\ (/\ events # << >>
        /\ events[1].type = "load"
        /\ events[1].note \in {"absent", "corrupt"}) =>
          /\ events[1].idx = -1
          /\ events[2] = Ev("start", 0, "auto", 0, 0)
          /\ start_index = 0
          /\ Len(events) = 2 => pc \in {"batch_loop", "pb_loop", "seq_loop"}

\* A run over an unreadable progress file has handed record 0 to
\* process_single_tweet.
C17_Witness ==
    /\ Len(events) >= 3
    /\ events[1] = Ev("load", -1, "corrupt", 0, 0)
    /\ events[3] = Ev("process", 0, "", 0, 0)
    /\ pc = "pst_begin"
    /\ progress_file.state = "corrupt"

\* The runner's step on an ordinary exception of a record: one failure
\* more, the successes as they were, and on to the head of the record loop
\* with the next position.
C18_Step ==
    pc = "Exception" =>
        /\ failed_count' + batch_failed' = failed_count + batch_failed + 1
        /\ success_count' + batch_success' = success_count + batch_success
        /\ i' = i + 1
        /\ pc' = IF batch_config.enable_batching THEN "pb_loop" ELSE "seq_loop"

\* After a record raised, the next record handed to process_single_tweet is
\* the one that follows it; and a run that ends without any interrupt has
\* handed over every record of its window after the one that raised.
C18_Continues ==
    \A n \in 1..Len(events) :
        events[n].type = "exception" =>
            LET j == events[n].idx
                later == {m \in (n + 1)..Len(events) : events[m].type = "process"}
            IN /\ \A m \in later : events[m].idx > j
               /\ later # {} => \E m \in later : events[m].idx = j + 1
               /\ (RunEnded /\ Interrupts({"record", "buffer", "rest"}) = {}) =>
                     /\ pc = "done"
                     /\ \A x \in (j + 1)..(end_index - 1) :
                           \E m \in later : events[m].idx = x

\* C18: an ordinary exception raised by one record is caught by the runner,
\* adds exactly one to the failures and nothing to the successes, and the
\* run goes on with the next record; it never ends the run, in batched and
\* in non-batched mode.
C18_ExceptionCountedRunContinues == [][C18_Step]_vars /\ []C18_Continues

\* Record 0 raised in a batch and record 1 of the same batch was started.
C18_Witness ==
    /\ batch_config.enable_batching
    /\ batch_failed = 1
    /\ pc = "pst_begin"
    /\ \E n \in 1..Len(events) : events[n] = Ev("exception", 0, "", 0, 0)
    /\ Last(events) = Ev("process", 1, "", 0, 0)

\* The save events among the events from position n on.
SavesFrom(seq, n) ==
    {seq[m].idx : m \in {x \in n..Len(seq) : seq[x].type = "save"}}

\* One step of a batched run: after chunk number c a checkpoint is saved
\* exactly when c is a multiple of progress_save_interval or c is the last
\* chunk, with the index of the last record of chunk c; no other step of a
\* batched run writes the progress file.
C19_Step ==
    batch_config.enable_batching =>
        IF pc = "batch_after"
        THEN LET c == batch_count
                 size == batch_config.batch_size
                 chunks == (process_len + size - 1) \div size
                 due == c % batch_config.progress_save_interval = 0 \/ c = chunks
                 last == start_index + Min(c * size, process_len) - 1
             IN IF due
                THEN /\ progress_file'.state = "ok"
                     /\ progress_file'.content.last_processed_index = last
                     /\ SavesFrom(events', Len(events) + 1) = {last}
                ELSE /\ progress_file' = progress_file
                     /\ SavesFrom(events', Len(events) + 1) = {}
        ELSE /\ progress_file' = progress_file
             /\ SavesFrom(events', Len(events) + 1) = {}

\* C19: with batching enabled a checkpoint is saved after chunk c exactly
\* when c is a multiple of the checkpoint interval or c is the final chunk,
\* and its last_processed_index is the index of the last record of chunk c.
C19_BatchedCheckpointSchedule == [][C19_Step]_vars

\* Two chunks of one record with interval 2: nothing was saved after chunk 1,
\* index 1 was saved after chunk 2.
C19_Witness ==
    /\ batch_config.enable_batching
    /\ batch_config.batch_size = 1
    /\ batch_config.progress_save_interval = 2
    /\ pc = "done"
    /\ start_index = 0 /\ end_index = 2
    /\ SavesFrom(events, 1) = {1}
    /\ progress_file.content.last_processed_index = 1

\* The events of the given types, in order.
EventsOf(types) == SelectSeq(events, LAMBDA e : e.type \in types)

\* C20: with batching disabled the records are handed to
\* process_single_tweet one at a time in increasing index order from the
\* start index, and the end of every record i, by a return or by an
\* exception, is followed by a checkpoint of index i before record i + 1 is
\* started.
C20_SequentialCheckpointEveryRecord ==
    ~batch_config.enable_batching =>
        /\ LET started == EventsOf({"process"})
           IN \A k \in 1..Len(started) : started[k].idx = start_index + k - 1
        /\ \A n \in 1..Len(events) :
              /\ (events[n].type \in {"return", "exception"} /\ n < Len(events))
                    => (events[n + 1].type = "save" /\ events[n + 1].idx = events[n].idx)
              /\ (events[n].type = "process" /\ events[n].idx > start_index)
                    => (events[n - 1].type = "save" /\ events[n - 1].idx = events[n].idx - 1)
        /\ (pc = "pst_begin" /\ i > 0) =>
              /\ progress_file.state = "ok"
              /\ progress_file.content.last_processed_index = actual_index - 1

\* Record 0 raised, index 0 was saved, and record 1 has been started.
C20_Witness ==
    /\ ~batch_config.enable_batching
    /\ pc = "pst_begin"
    /\ Len(events) = 5
    /\ events[3] = Ev("exception", 0, "", 0, 0)
    /\ events[4] = Ev("save", 0, "", 0, 1)
    /\ events[5] = Ev("process", 1, "", 0, 0)

\* The indices of the records this run handed to process_single_tweet, in
\* the order of the calls.
Handed ==
    LET started == EventsOf({"process"})
    IN [k \in 1..Len(started) |-> started[k].idx]

\* The indices s, s + 1, ..., e - 1 in increasing order.
Range(s, e) == [k \in 1..(IF e > s THEN e - s ELSE 0) |-> s + k - 1]

\* A step that is the call process_dataset(start_index=s, max_count=c) with
\* s in 0..N-1 and c >= 0 sets the window [s, min(s + c, N)).
C21_Step ==
    \A s \in 0..(Len(data) - 1), c \in 0..MaxRecords, auto_continue \in BOOLEAN :
        process_dataset_call(<<s>>, <<c>>, auto_continue)
            => /\ start_index' = s
               /\ end_index' = Min(s + c, Len(data))

\* A run that ended without an interrupt handed over the records of its
\* window, each once, and no other.
C21_Handed ==
    (pc = "done" /\ Interrupts({"record", "buffer", "rest"}) = {})
        => Handed = Range(start_index, end_index)

\* C21: for a dataset of N records, every start_index in 0..N-1 and every
\* max_count >= 0, an uninterrupted run hands to process_single_tweet exactly
\* the records with index in [start_index, min(start_index + max_count, N)).
C21_WindowHandedOver == [][C21_Step]_vars /\ []C21_Handed

\* The call attempts made on client c, in order.
AttemptsOn(c) == SelectSeq(issued, LAMBDA a : a.client = c)

\* C22: on every client, two consecutive call attempts are stamped at least
\* min_interval apart, whether the earlier one succeeded or failed: an attempt
\* that begins sooner than min_interval after the previous stamp sleeps
\* min_interval minus the elapsed time, and one that begins min_interval or
\* more after it does not sleep.
C22_MinIntervalBetweenAttempts ==
    \A c \in ClientClasses :
        LET on == AttemptsOn(c)
        IN \A k \in 1..(Len(on) - 1) :
              LET elapsed == on[k + 1].asked - on[k].stamp
              IN /\ on[k + 1].stamp - on[k].stamp >= min_interval(c)
                 /\ on[k + 1].waited = IF elapsed < min_interval(c)
                                       THEN min_interval(c) - elapsed
                                       ELSE 0

\* Three attempts on the OpenRouter client: the first failed, the second came
\* one second after it and slept three, the third came four seconds after
\* the second and did not sleep.
C22_Witness ==
    LET on == AttemptsOn("OpenRouterClient")
    IN /\ Len(on) = 3
       /\ ~on[1].ok
       /\ on[2].asked - on[1].stamp = 1
       /\ on[2].waited = 3
       /\ on[3].asked - on[2].stamp >= openrouter_interval
       /\ on[3].waited = 0

\* One step of a process: every cached client stays in the cache as the same
\* instance; a client is constructed only for a key that is not cached, one
\* at a time, and is cached under that key; a lookup of a cached pair
\* constructs nothing.
C23_Step ==
    run_no' = run_no =>
        /\ \A key \in DOMAIN clients :
              key \in DOMAIN clients' /\ clients'[key] = clients[key]
        /\ constructed' \in {constructed, constructed + 1}
        /\ Cardinality(DOMAIN clients' \ DOMAIN clients) = constructed' - constructed
        /\ (/\ pc = "cft_loop"
            /\ cand <= Len(api_configs(task_name))
            /\ client_key(api_configs(task_name)[cand][1],
                          api_configs(task_name)[cand][2]) \in DOMAIN clients)
              => constructed' = constructed

\* The cache holds one instance per pair it was asked for, under that pair's
\* key, and nothing was constructed besides what it holds.
C23_Cache ==
    /\ constructed = Cardinality(DOMAIN clients)
    /\ \A key \in DOMAIN clients :
          client_key(clients[key].provider, clients[key].model) = key
    /\ \A j, k \in DOMAIN clients : clients[j].serial = clients[k].serial => j = k

\* C23: during a run at most one client is constructed per requested
\* (provider, model) pair: a later lookup of the pair returns the cached
\* instance, and a cached entry is never removed or replaced.
C23_OneClientPerPair == [][C23_Step]_vars /\ []C23_Cache

\* The second attempt of a task with three candidates: the three clients of
\* the first attempt are cached and the first of them has been called again.
C23_Witness ==
    /\ pc = "cft_loop"
    /\ attempt = 1
    /\ Cardinality(DOMAIN clients) = 3
    /\ constructed = 3
    /\ Len(SelectSeq(calls, LAMBDA e : e.kind = "call")) = 4

\* No candidate is configured for the task.
NotConfigured(task) == get_task_config(task) = <<NoCand, NoCand, NoCand, NoCand>>

\* C24: when no candidate is configured for the task, _call_api_for_task
\* fails at once: it does not enter the retry loop, and it returns None
\* without a provider call and without a backoff sleep.
C24_UndefinedTaskFailsAtOnce ==
    /\ pc = "cft_loop" => ~NotConfigured(task_name)
    /\ (JustReturned /\ NotConfigured(task_name)) =>
          /\ response = None
          /\ calls = << >>

\* The provider is unknown, disabled or without key in api_providers.
Misconfigured(provider) ==
    \/ provider \notin DOMAIN api_providers
    \/ ~api_providers[provider].enabled
    \/ api_providers[provider].key = ""

\* The invocation met a candidate that could not be served.
MetMisconfigured == \E k \in 1..Len(calls) : calls[k].kind = "skip"

\* C25 as stated: a candidate with a configuration error is fatal to the
\* task that meets it: the task returns None.
C25_ConfigErrorFailsTask ==
    (JustReturned /\ MetMisconfigured) => response = None

\* One step of the program: a candidate with a configuration error is
\* passed over without a provider call, like a failed one, and the next
\* candidate is tried; a task that got no text fails its record; and the
\* runner counts the failed record and goes on to the next position.
C25_Step ==
    /\ (/\ pc = "cft_loop"
        /\ cand <= Len(api_configs(task_name))
        /\ Misconfigured(api_configs(task_name)[cand][1]))
          => /\ calls' = Append(calls, Call("skip", api_configs(task_name)[cand], None, 0))
             /\ pc' = "cft_loop" /\ cand' = cand + 1 /\ attempt' = attempt
             /\ called' = called /\ api_stats' = api_stats /\ clients' = clients
    /\ (JustReturned /\ ~Truthy(response))
          => (pc' = "pst_return" /\ ret' = FALSE)
    /\ (pc = "pst_return" /\ ~ret)
          => /\ failed_count' + batch_failed' = failed_count + batch_failed + 1
             /\ pc' \in {"pb_loop", "seq_loop", "KeyboardInterrupt"}
             /\ pc' # "KeyboardInterrupt" => i' = i + 1

\* A task fails exactly when no candidate returned text in any attempt: with
\* only misconfigured candidates always, with a usable one when its calls
\* failed; and a run that ended without an interrupt handed over every
\* record of its window.
C25_Outcome ==
    /\ JustReturned =>
          (response = None <=> \A k \in 1..Len(calls) : ~calls[k].ok)
    /\ (JustReturned /\ \A c \in 1..Len(api_configs(task_name)) :
                            Misconfigured(api_configs(task_name)[c][1]))
          => /\ response = None
             /\ \A k \in 1..Len(calls) : calls[k].kind # "call"
             /\ api_stats = [stats0 EXCEPT !["failed"] = @ + 1]
    /\ (pc = "done" /\ Interrupts({"record", "buffer", "rest"}) = {})
          => Handed = Range(start_index, end_index)

\* C25, amended: a candidate that names an unknown provider, a disabled
\* provider or a provider without key fails without a provider call and the
\* task goes on with its next candidate; the task and its record fail only
\* when no candidate returns text in any attempt, and the run then continues
\* with the next record.
C25_ConfigErrorFailsCandidate == [][C25_Step]_vars /\ []C25_Outcome

\* Record 0 failed at a title whose candidates are all misconfigured, and
\* record 1 has been handed over.
C25_Witness ==
    /\ task_config["title"] = <<CX, CN, CU, NoCand>>
    /\ api_stats["failed"] = 1
    /\ \E n \in 1..Len(events) : events[n] = Ev("return", 0, "", 0, 0)
    /\ Last(events) = Ev("process", 1, "", 0, 0)
    /\ pc = "pst_begin"

\* The reply is None, empty or only whitespace.
Blank(r) == r.none \/ strip(r.text) = << >>

\* C26: a candidate's reply that is empty or only whitespace counts as a
\* failed call: it ends neither the candidate loop nor the attempts, no
\* provider is credited for it, and _call_api_for_task never returns it.
C26_BlankReplyIsFailure ==
    /\ \A k \in 1..Len(calls) :
          (calls[k].kind = "call" /\ Blank(calls[k].reply)) => ~calls[k].ok
    /\ JustReturned =>
          /\ Truthy(response) => ~Blank(response)
          /\ (calls # << >> /\ Blank(Last(calls).reply)) =>
                api_stats = [stats0 EXCEPT !["failed"] = @ + 1]

\* One step of the program: the sub-task in hand changes only from none to
\* the title at the start of a record, from the title to the body, from the
\* body to the image, and from any to none; every entry into
\* _call_api_for_task is for the next sub-task; and a sub-task that gave no
\* usable text ends the record with False.
C27_Step ==
    /\ task_name' # task_name =>
          \/ task_name = "" /\ task_name' = "title" /\ pc = "pst_begin"
          \/ task_name = "title" /\ task_name' = "body" /\ pc = "after_title"
          \/ task_name = "body" /\ task_name' = "svg" /\ pc = "after_body"
          \/ task_name' = ""
    /\ (pc # "cft_loop" /\ pc' = "cft_loop") => task_name' # task_name
    /\ (\/ pc = "after_title" /\ ~Truthy(generate_title(response))
        \/ pc = "after_body" /\ ~Truthy(generate_body(response))
        \/ pc = "after_svg" /\ ~Truthy(generate_svg(response)))
          => /\ pc' = "pst_return"
             /\ ret' = FALSE
             /\ task_name' = ""
             /\ returned' = returned

\* C27: for one record the sub-tasks are requested only in the order title,
\* body, image, each at most once, and the failure of one fails the record
\* at once: after a failed title neither body nor image is requested, after
\* a failed body the image is not.
C27_SubTaskOrder == [][C27_Step]_vars

\* The body of record 0 failed after its title was answered: two
\* invocations returned and the record returned False.
C27_Witness ==
    /\ pc = "pst_return"
    /\ why = "body_failed"
    /\ ~ret
    /\ actual_index = 0
    /\ returned = 2
    /\ api_stats["pA"] = 1 /\ api_stats["failed"] = 1

\* One step of the program on a record whose source text is empty or
\* missing: process_single_tweet returns False at once, with no invocation
\* of _call_api_for_task, no provider call and nothing written; and the
\* runner's next step adds one to the failures and none to the successes.
C28_Step ==
    /\ (pc = "pst_begin" /\ data[actual_index + 1] = "empty")
          => /\ pc' = "pst_return"
             /\ ret' = FALSE
             /\ why' = "no_text"
             /\ task_name' = ""
             /\ called' = called
             /\ returned' = returned
             /\ api_stats' = api_stats
             /\ output_dir' = output_dir
             /\ progress_file' = progress_file
    /\ (pc = "pst_return" /\ why = "no_text")
          => /\ ~ret
             /\ failed_count' + batch_failed' = failed_count + batch_failed + 1
             /\ success_count' + batch_success' = success_count + batch_success

\* A record without text is not among those a provider was called for.
C28_NeverCalled ==
    \A x \in called : data[x + 1] # "empty"

\* C28: for a record whose source text is empty, process_single_tweet makes
\* no provider call, writes nothing and returns False, and the runner counts
\* the record as failed, not as a success.
C28_EmptyTextFails == [][C28_Step]_vars /\ []C28_NeverCalled

\* A non-batched run over an empty record and a record with text has
\* counted the first as failed and saved that.
C28_Witness ==
    /\ data = << "empty", "text" >>
    /\ ~batch_config.enable_batching
    /\ pc = "seq_loop"
    /\ i = 1
    /\ failed_count = 1 /\ success_count = 0
    /\ called = {}
    /\ output_dir = << >>
    /\ progress_file = saved_progress(0, 0, 1)

\* One step of a run: the successes grow by one exactly when
\* process_single_tweet returned True to the runner, the failures by one
\* exactly when it returned False or raised, and no other step of the run
\* changes the counts.
C29_Step ==
    (pc # "start" /\ run_no' = run_no) =>
        LET successes == success_count + batch_success
            failures  == failed_count + batch_failed
        IN /\ success_count' + batch_success' =
                 successes + (IF pc = "pst_return" /\ ret THEN 1 ELSE 0)
           /\ failed_count' + batch_failed' =
                 failures + (IF (pc = "pst_return" /\ ~ret) \/ pc = "Exception"
                             THEN 1 ELSE 0)

\* A run over the non-empty window [s, e) that has ended without an
\* interrupt: the checkpoint on disk is the last one written, it has
\* last_processed_index = e - 1 and the run's counts, and the counts add up
\* to e - s.
C29_Final ==
    (/\ pc = "done"
     /\ Interrupts({"record", "buffer", "rest"}) = {}
     /\ end_index > start_index)
        => /\ progress_file.state = "ok"
           /\ progress_file.content.last_processed_index = end_index - 1
           /\ progress_file.content.total_success = success_count
           /\ progress_file.content.total_failed = failed_count
           /\ success_count + failed_count = end_index - start_index
           /\ LET saves == EventsOf({"save"})
              IN /\ saves # << >>
                 /\ Last(saves) = Ev("save", end_index - 1, "", success_count, failed_count)

\* C29: when a run over the window [s, e) completes without interrupt, the
\* last checkpoint written has last_processed_index = e - 1, total_success
\* equal to the number of window records for which process_single_tweet
\* returned success, and total_success + total_failed = e - s.
C29_FinalCheckpoint == [][C29_Step]_vars /\ []C29_Final

\* A full run over the whole dataset in which every record was saved ended
\* with the checkpoint of the last index and as many successes as records.
C29_Witness ==
    /\ pc = "done"
    /\ Interrupts({"record", "buffer", "rest"}) = {}
    /\ start_index = 0 /\ end_index = MaxRecords
    /\ progress_file = saved_progress(MaxRecords - 1, MaxRecords, 0)
    /\ WrittenThisRun = 0..(MaxRecords - 1)

\* One step of a program whose configuration does not validate: it is the
\* end of main() with status 1, and it leaves the progress file, the output
\* directory and the histories of records and provider calls as they were.
C30_Step ==
    config_faults # {} =>
        /\ pc = "main"
        /\ pc' = "exit"
        /\ exit_status' = << 1 >>
        /\ progress_file' = progress_file
        /\ output_dir' = output_dir
        /\ events' = events
        /\ called' = called
        /\ returned' = returned
        /\ constructed' = constructed

\* With a configuration that does not validate the program is at its entry
\* or has ended with a non-zero status; no record was handed over, no
\* provider was called and nothing was written.
C30_Aborted ==
    config_faults # {} =>
        /\ pc \in {"main", "exit"}
        /\ pc = "exit" => (exit_status # << >> /\ exit_status[1] # 0)
        /\ events = << >>
        /\ called = {}
        /\ api_stats = [k \in StatKeys |-> 0]
        /\ output_dir = << >>

\* C30: when configuration validation reports an error at startup (missing
\* section or field, enabled provider without a well-formed key, missing
\* required file), the run aborts before any record is processed, any
\* provider call is issued or any checkpoint is written, and the process
\* ends with a non-zero exit status.
C30_InvalidConfigAborts == [][C30_Step]_vars /\ []C30_Aborted

\* A required file is missing: the program ended with status 1 and the
\* checkpoint of the earlier run is as it was.
C30_Witness ==
    /\ config_faults = {"file_missing"}
    /\ pc = "exit"
    /\ exit_status = << 1 >>
    /\ progress_file = saved_progress(0, 1, 0)
    /\ events = << >>

\* issued[j] is the first call on client c of the chunk that starts at
\* issued[k], and c was cached when the chunk started.
FirstOfChunk(k, j, c) ==
    /\ k < j
    /\ issued[k].client = "_process_batch"
    /\ issued[j].client = c
    /\ \A m \in (k + 1)..(j - 1) : issued[m].client \notin {c, "_process_batch"}
    /\ \E m \in 1..(k - 1) : issued[m].client = c

\* C31: in batched mode the rate-limit timer of every cached client is reset
\* at the start of every chunk, so the first call of the chunk on a cached
\* client is issued without a rate-limit wait.
C31_ChunkStartResetsTimers ==
    \A c \in ClientClasses : \A k, j \in 1..Len(issued) :
        FirstOfChunk(k, j, c) => issued[j].waited = 0

\* No interrupt was delivered to this run so far.
Uninterrupted == Interrupts({"record", "buffer", "rest"}) = {}

\* One step of a batched run over the window [s, e) that no interrupt has
\* reached: chunk c starts at s + (c - 1) * batch_size, right after the
\* records of the chunks before it, and holds batch_size records or, the
\* last one, what is left of the window; each record handed over is the one
\* after the last handed over and lies in the chunk; a chunk ends when its
\* records were handed over and the run ends when those of the window were.
C32_Step ==
    (batch_config.enable_batching /\ Uninterrupted /\ Uninterrupted') =>
        LET size == batch_config.batch_size
            c == batch_count'
            first == start_index + (c - 1) * size
            len == Min(size, (end_index - start_index) - (c - 1) * size)
        IN /\ (pc = "batch_loop" /\ pc' = "pb_loop") =>
                 /\ c = batch_count + 1
                 /\ len >= 1
                 /\ (len < size => first + len = end_index)
                 /\ start_index + batch_start = first
                 /\ batch_len = len
                 /\ Handed = Range(start_index, first)
           /\ (pc = "pb_loop" /\ pc' = "pst_begin") =>
                 /\ Handed' = Append(Handed, start_index + Len(Handed))
                 /\ Last(Handed') \in first..(first + len - 1)
           /\ (pc = "pb_loop" /\ pc' = "batch_after") =>
                 Handed = Range(start_index, first + len)
           /\ (pc = "batch_loop" /\ pc' = "done") =>
                 Handed = Range(start_index, end_index)
           /\ (pc \notin {"pb_loop", "start"} /\ run_no' = run_no) => Handed' = Handed

\* A batched run that ended without an interrupt handed over the records
\* of its window, each once, in increasing order of the index.
C32_Covered ==
    (batch_config.enable_batching /\ pc = "done" /\ Uninterrupted)
        => Handed = Range(start_index, end_index)

\* C32: in batched mode without interrupts the chunks are consecutive and
\* disjoint, each holds batch_size records except possibly the last, and
\* together they cover the window exactly: every record of the window is
\* handed to process_single_tweet exactly once, in strictly increasing index
\* order.
C32_ChunksCoverWindow == [][C32_Step]_vars /\ []C32_Covered

\* Three records in chunks of two: the second chunk held the one record
\* left, and the run handed over 0, 1, 2.
C32_Witness ==
    /\ batch_config.enable_batching
    /\ batch_config.batch_size = 2
    /\ pc = "done"
    /\ Uninterrupted
    /\ start_index = 0 /\ end_index = 3
    /\ Handed = << 0, 1, 2 >>
    /\ EventsOf({"save"}) # << >>

\* The provider calls of the current invocation of _call_api_for_task.
ProviderCalls == SelectSeq(calls, LAMBDA e : e.kind = "call")

\* The position of the loops of _call_api_for_task: passes made so far.
Passes == attempt * (Len(api_configs(task_name)) + 1) + cand

\* A step inside _call_api_for_task moves its loops on.
C33_Step ==
    (pc = "cft_loop" /\ pc' = "cft_loop") => Passes' > Passes

\* The invocation in progress, or the last one that returned, has made at
\* most max_retries * (number of candidates) provider calls and max_retries - 1
\* backoff sleeps, the k-th of them after attempt k - 1 and 5 * k seconds long.
C33_Bounds ==
    calls # << >> =>
        /\ Len(ProviderCalls) <= max_retries * Len(api_configs(task_name))
        /\ Len(Sleeps) <= max_retries - 1
        /\ \A k \in 1..Len(Sleeps) :
              /\ Sleeps[k].attempt = k - 1
              /\ Sleeps[k].wait = 5 * (Sleeps[k].attempt + 1)
        /\ pc = "cft_loop" =>
              /\ attempt \in 0..(max_retries - 1)
              /\ cand \in 1..(Len(api_configs(task_name)) + 1)

\* C33: for every max_retries >= 1, every candidate list and every
\* combination of provider outcomes, _call_api_for_task terminates after at
\* most max_retries * (number of candidates) provider calls and at most
\* max_retries - 1 backoff sleeps, where the sleep after failed attempt a
\* (counted from 0) lasts 5 * (a + 1) seconds.
C33_TerminatesWithinBounds ==
    /\ [][C33_Step]_vars
    /\ []C33_Bounds
    /\ (pc = "cft_loop") ~> (pc # "cft_loop")

\* With max_retries = 4 and three candidates that never answer the
\* invocation returned none after twelve calls and sleeps of 5, 10 and 15 s.
C33_Witness ==
    /\ JustReturned
    /\ max_retries = 4
    /\ response = None
    /\ Len(api_configs(task_name)) = 3
    /\ Len(ProviderCalls) = 12
    /\ [k \in 1..Len(Sleeps) |-> Sleeps[k].wait] = << 5, 10, 15 >>

\* The two modes the claim compares: no batching, and chunks of one record
\* with a checkpoint after every chunk.
EquivalentModes ==
    \/ ~batch_config.enable_batching
    \/ /\ batch_config.batch_size = 1
       /\ batch_config.progress_save_interval = 1

\* What a run shows of itself: the records handed over, how each ended, and
\* the checkpoints.
Observed == EventsOf({"process", "return", "exception", "save"})

\* One step of a run in either mode: the counts follow the result of the
\* record (one more success for True, one more failure for False or an
\* exception), a record handed over is the one after the last, a checkpoint
\* carries the index of the last record handed over and the counts as they
\* are then, and nothing else writes the progress file.
C34_Step ==
    (EquivalentModes /\ Uninterrupted' /\ pc # "start" /\ run_no' = run_no) =>
        LET successes == success_count + batch_success
            failures  == failed_count + batch_failed
            added == SubSeq(events', Len(events) + 1, Len(events'))
            saves == SelectSeq(added, LAMBDA e : e.type = "save")
        IN /\ success_count' + batch_success' =
                 successes + (IF pc = "pst_return" /\ ret THEN 1 ELSE 0)
           /\ failed_count' + batch_failed' =
                 failures + (IF (pc = "pst_return" /\ ~ret) \/ pc = "Exception"
                             THEN 1 ELSE 0)
           /\ \A n \in 1..Len(added) :
                 /\ added[n].type = "process" =>
                       added[n].idx = start_index + Len(Handed)
                 /\ added[n].type = "save" =>
                       /\ Handed # << >>
                       /\ added[n].idx = Last(Handed)
                       /\ added[n].s = success_count' + batch_success'
                       /\ added[n].f = failed_count' + batch_failed'
                       /\ progress_file' = saved_progress(added[n].idx, added[n].s,
                                                          added[n].f)
           /\ Len(saves) <= 1
           /\ saves = << >> => progress_file' = progress_file

\* What either mode shows is a sequence of rounds, one per record of the
\* window in the order of the index: the record is handed over, it returns
\* or raises, its checkpoint is saved; a run that has ended has completed
\* the round of every record of its window and its counts are those of its
\* last checkpoint.
C34_Trace ==
    (EquivalentModes /\ Uninterrupted) =>
        LET t == Observed
        IN /\ \A n \in 1..Len(t) :
                 CASE t[n].type = "process" ->
                          /\ t[n].idx = start_index + (n - 1) \div 3
                          /\ n % 3 = 1
                   [] t[n].type = "save" ->
                          /\ n % 3 = 0
                          /\ t[n].idx = t[n - 1].idx
                          /\ t[n].s + t[n].f = t[n].idx - start_index + 1
                   [] OTHER ->
                          /\ n % 3 = 2
                          /\ t[n].idx = t[n - 1].idx
           /\ pc = "done" =>
                 /\ Len(t) = 3 * Len(Range(start_index, end_index))
                 /\ t # << >> =>
                       /\ Last(t).s = success_count
                       /\ Last(t).f = failed_count

\* C34: batched mode with batch_size = 1 and a checkpoint interval of 1 is
\* equivalent to non-batched mode: without interrupts both run the same
\* rounds, in which the sequence of records handed to process_single_tweet,
\* the sequence of checkpoints (index, success count, failed count) and the
\* final counts are the same function of the window and of how each record
\* ended, so on the same records and provider outcomes they are equal.
C34_BatchOfOneIsSequential == [][C34_Step]_vars /\ []C34_Trace

\* A run in chunks of one over two records, the first saved and the second
\* failed, shows what the non-batched run shows.
C34_Witness ==
    /\ batch_config.enable_batching
    /\ batch_config.batch_size = 1
    /\ batch_config.progress_save_interval = 1
    /\ pc = "done"
    /\ Uninterrupted
    /\ [n \in 1..Len(Observed) |-> <<Observed[n].type, Observed[n].idx,
                                      Observed[n].s, Observed[n].f>>]
          = << <<"process", 0, 0, 0>>, <<"return", 0, 0, 0>>, <<"save", 0, 1, 0>>,
               <<"process", 1, 0, 0>>, <<"return", 1, 0, 0>>, <<"save", 1, 1, 1>> >>

\* C35: in every checkpoint written, total_processed = last_processed_index
\* + 1 and total_success + total_failed = total_processed, also for runs
\* that start or resume at an index greater than 0.
C35_CheckpointArithmetic ==
    progress_file.state = "ok" =>
        LET saved == progress_file.content
        IN /\ saved.total_processed = saved.last_processed_index + 1
           /\ saved.total_success + saved.total_failed = saved.total_processed

\* C36: get_auto_start_index returns a value in 0..N (N the length of the
\* dataset) for every parseable content of the checkpoint file, a
\* last_processed_index below -1 and a checkpoint without the field
\* included, so the run never starts at a negative index.
C36_ResumeIndexInRange ==
    pc = "resumed" => start_index \in 0..Len(data)

\* One step of the program: every folder of the output directory stays,
\* with the files it holds and what was written to each, and at most one
\* folder is new.
C37_Step ==
    /\ \A folder \in DOMAIN output_dir :
          /\ folder \in DOMAIN output_dir'
          /\ output_dir'[folder] = output_dir[folder]
    /\ Cardinality(DOMAIN output_dir' \ DOMAIN output_dir) <= 1

\* C37: process_single_tweet never writes artifact files into a folder that
\* existed when its write step began: over any sequence of records and runs
\* the artifact files of a folder are never modified or replaced once
\* written.
C37_FoldersNeverRewritten == [][C37_Step]_vars

\* An earlier run left folder b with its first file only; the record titled
\* b was saved as b_1 and what b holds is as it was left.
C37_Witness ==
    /\ pc = "pst_return"
    /\ ret
    /\ DOMAIN output_dir = { <<"b">>, <<"b", "_", "1">> }
    /\ output_dir[<<"b">>] = [file \in {"generated.svg"} |-> <<0, 0>>]
    /\ output_dir[<<"b", "_", "1">>] = [file \in Files |-> <<run_no, actual_index>>]

\* A step that looks a candidate up in the registry and gets a client gets
\* the client of that provider and model.
C38_Step ==
    (pc = "cft_loop" /\ cand <= Len(api_configs(task_name))) =>
        LET api_info == api_configs(task_name)[cand]
            key == client_key(api_info[1], api_info[2])
        IN get_client(api_info[1], api_info[2]) =>
              /\ key \in DOMAIN clients'
              /\ clients'[key].provider = api_info[1]
              /\ clients'[key].model = api_info[2]

\* C38: two registry lookups with different (provider, model) pairs never
\* return the same client instance: the composite cache key built from
\* provider and model is distinct for every two distinct pairs.
C38_DistinctPairsDistinctClients == [][C38_Step]_vars


\* ------------------------------------------------------------ APIClientManager
\* The provider names create_api_clients registers.
ManagerProviders == {"openrouter", "gemini"}

\* The dicts an APIClientManager is built on: their keys, in insertion order.
ClientDicts ==
    { << >>, <<"openrouter">>, <<"gemini">>,
      <<"openrouter", "gemini">>, <<"gemini", "openrouter">> }

\* `provider in self.clients`: membership in the dict's keys
has_client(m, provider) == \E n \in DOMAIN m.clients : m.clients[n] = provider

\* [c for c in clients.keys() if c != primary]
RECURSIVE keys_other_than(_, _)
keys_other_than(keys, primary) ==
    IF keys = << >> THEN << >>
    ELSE (IF Head(keys) # primary THEN << Head(keys) >> ELSE << >>)
         \o keys_other_than(Tail(keys), primary)

\* APIClientManager.__init__: self.fallback_order
fallback_order(m) == keys_other_than(m.clients, m.primary) \o << m.primary >>

ManagerCall(provider, reply) == [provider |-> provider, reply |-> reply]

\* A caller invokes call_with_fallback.
call_with_fallback ==
    /\ cwf.pc \in {"idle", "returned"}
    /\ cwf' = [pc |-> "primary", k |-> 0, calls |-> << >>, result |-> << >>]
    /\ UNCHANGED <<cfgVars, diskVars, procVars, pc, runVars, batchVars, i, recVars,
                   cftVars, run_no, faultVars, events, cftHist, called, mainVars,
                   clockVars, manager>>

\* Lines 168-172: the primary client is tried first.
call_with_fallback_primary ==
    /\ cwf.pc = "primary"
    /\ IF has_client(manager, manager.primary)
       THEN \E response_ \in Replies("title") :
              LET made == Append(cwf.calls, ManagerCall(manager.primary, response_))
              IN IF Truthy(response_)
                 THEN cwf' = [pc |-> "returned", k |-> 0, calls |-> made,
                              result |-> <<manager.primary, response_>>]
                 ELSE cwf' = [cwf EXCEPT !.pc = "fallback", !.k = 1, !.calls = made]
       ELSE cwf' = [cwf EXCEPT !.pc = "fallback", !.k = 1]
    /\ UNCHANGED <<cfgVars, diskVars, procVars, pc, runVars, batchVars, i, recVars,
                   cftVars, run_no, faultVars, events, cftHist, called, mainVars,
                   clockVars, manager>>

\* Lines 175-181: one iteration of the loop over self.fallback_order.
call_with_fallback_next ==
    /\ cwf.pc = "fallback"
    /\ cwf.k <= Len(fallback_order(manager))
    /\ LET provider == fallback_order(manager)[cwf.k]
       IN IF has_client(manager, provider)
          THEN \E response_ \in Replies("title") :
                 LET made == Append(cwf.calls, ManagerCall(provider, response_))
                 IN IF Truthy(response_)
                    THEN cwf' = [pc |-> "returned", k |-> cwf.k, calls |-> made,
                                 result |-> <<provider, response_>>]
                    ELSE cwf' = [cwf EXCEPT !.k = cwf.k + 1, !.calls = made]
          ELSE cwf' = [cwf EXCEPT !.k = cwf.k + 1]
    /\ UNCHANGED <<cfgVars, diskVars, procVars, pc, runVars, batchVars, i, recVars,
                   cftVars, run_no, faultVars, events, cftHist, called, mainVars,
                   clockVars, manager>>

\* Lines 183-184: the loop is exhausted.
call_with_fallback_none ==
    /\ cwf.pc = "fallback"
    /\ cwf.k > Len(fallback_order(manager))
    /\ cwf' = [cwf EXCEPT !.pc = "returned", !.result = <<"none", None>>]
    /\ UNCHANGED <<cfgVars, diskVars, procVars, pc, runVars, batchVars, i, recVars,
                   cftVars, run_no, faultVars, events, cftHist, called, mainVars,
                   clockVars, manager>>

NextManager ==
    \/ call_with_fallback
    \/ call_with_fallback_primary
    \/ call_with_fallback_next
    \/ call_with_fallback_none

\* An APIClientManager on any of the dicts, with either provider as primary.
InitManager ==
    /\ data = << >>
    /\ task_config = SimpleTasks
    /\ batch_config \in {b \in BatchConfigs : ~b.enable_batching}
    /\ max_retries = default_max_retries
    /\ progress_file = [state |-> "absent", content |-> ZeroProgress]
    /\ output_dir = << >>
    /\ clients = << >> /\ constructed = 0
    /\ api_stats = [k \in StatKeys |-> 0]
    /\ pc = "start"
    /\ start_index = 0 /\ end_index = 0 /\ success_count = 0 /\ failed_count = 0
    /\ batch_start = 0 /\ batch_count = 0 /\ batch_success = 0 /\ batch_failed = 0
    /\ i = 0
    /\ title = << >> /\ body = << >> /\ ret = FALSE /\ why = ""
    /\ task_name = "" /\ attempt = 0 /\ cand = 0 /\ response = None
    /\ run_no = 1 /\ interrupts = 0 /\ fs_faults = 0
    /\ events = << >> /\ calls = << >> /\ stats0 = api_stats /\ called = {}
    /\ returned = 0
    /\ config_faults = {} /\ exit_status = << >>
    /\ now = Epoch /\ last_call_time = [c \in ClientClasses |-> 0] /\ issued = << >>
    /\ manager \in { [clients |-> d, primary |-> p] :
                       d \in ClientDicts, p \in ManagerProviders }
    /\ cwf = Idle

SpecManager == InitManager /\ [][NextManager]_vars

C39_PrimaryFirst ==
    cwf.calls # << >> /\ has_client(manager, manager.primary)
        => cwf.calls[1].provider = manager.primary

C39_AtMostOnce ==
    \A m, n \in DOMAIN cwf.calls : m # n => cwf.calls[m].provider # cwf.calls[n].provider

C39_FirstSuccess ==
    cwf.pc = "returned" /\ cwf.result[1] # "none"
        => /\ cwf.result = <<Last(cwf.calls).provider, Last(cwf.calls).reply>>
           /\ Truthy(cwf.result[2])
           /\ \A n \in 1..(Len(cwf.calls) - 1) : ~Truthy(cwf.calls[n].reply)

C39_NoneOnlyAfterAll ==
    cwf.pc = "returned" /\ cwf.result[1] = "none"
        => /\ cwf.result[2] = None
           /\ \A c \in ManagerProviders : has_client(manager, c) =>
                  \E n \in DOMAIN cwf.calls : cwf.calls[n].provider = c
           /\ \A n \in DOMAIN cwf.calls : ~Truthy(cwf.calls[n].reply)

\* C39: in one call_with_fallback of an APIClientManager the primary client
\* is called first and each configured client is called at most once; the
\* result is (provider, response) of the first client that returned a
\* non-empty response, and ("none", None) only after every configured client
\* was called and failed.
C39_FallbackCallsEachClientOnce ==
    /\ C39_PrimaryFirst
    /\ C39_AtMostOnce
    /\ C39_FirstSuccess
    /\ C39_NoneOnlyAfterAll

====
